---- MODULE Spec2Model ----
(***************************************************************************)
(* The cuBLAS level-1 backend of oneMKL                                    *)
(* (src/src/blas/backends/cublas/cublas_level1.cpp) as a state machine.    *)
(*                                                                         *)
(* One host thread calls the entry points.  Each entry point validates its *)
(* sizes, submits one command group to the queue and (for a few routines)  *)
(* finishes with a host-side step.  The command group's interop task runs  *)
(* asynchronously: it acquires the cached cuBLAS handle, possibly switches *)
(* the handle's pointer mode, resolves the accessors to native pointers,   *)
(* issues the native call and checks the returned status.                  *)
(*                                                                         *)
(* Numbers are mathematical integers.  Element values are small integers,  *)
(* which float, double, int and int64_t all represent exactly, so the      *)
(* casts (double)float and (int64_t)int keep the value; single precision   *)
(* rounding is F32.                                                        *)
(***************************************************************************)
EXTENDS Integers, Sequences, FiniteSets, TLC

VARIABLES
    ops,          \* the entry-point invocations so far, in call order
    bufs,         \* contents of the caller's buffers
    handles,      \* per native context: the cached cuBLAS handle
    host,         \* 0: the host thread is outside the library; i: inside invocation i
    syncFaults,   \* exceptions thrown to the caller out of an entry point
    asyncFaults   \* exceptions thrown inside interop tasks (the queue's async channel)

vars == <<ops, bufs, handles, host, syncFaults, asyncFaults>>

-----------------------------------------------------------------------------
(* Bounds of the model *)

\* entry-point invocations in one behaviour of Spec
MaxOps == 2
\* length of the caller's vectors x and y
VecLen == 3

-----------------------------------------------------------------------------
(* Constants of the program and of the native library *)

\* largest value of the native library's int
IntMax == 2147483647
\* first integer a float cannot tell from its neighbour: 2^24
F32Exact == 16777216
CUBLAS_STATUS_SUCCESS == 0
CUBLAS_STATUS_EXECUTION_FAILED == 13
\* the driver's status for a context that cannot be bound
CUDA_ERROR_INVALID_CONTEXT == 201
StatusCodes == {CUBLAS_STATUS_SUCCESS, CUBLAS_STATUS_EXECUTION_FAILED}

PointerModes == {"HOST", "DEVICE"}
\* cublasCreate leaves a new handle in CUBLAS_POINTER_MODE_HOST
DefaultPointerMode == "HOST"

\* q1 and q2 are queues of one context, q3 is a queue of another one, and q4 is
\* a queue of a device that has no native backend
Queues == {"q1", "q2", "q3", "q4"}
Contexts == {"ctx1", "ctx2", "ctx4"}
CtxOf(queue) ==
    CASE queue = "q3" -> "ctx2"
      [] queue = "q4" -> "ctx4"
      [] OTHER -> "ctx1"
\* the queue's device has a native backend and its context can be bound
Usable(queue) == queue # "q4"

-----------------------------------------------------------------------------
(* Arithmetic helpers *)

Abs(v) == IF v < 0 THEN -v ELSE v

Max2(a, b) == IF a >= b THEN a ELSE b

RECURSIVE SeqSum(_)
SeqSum(s) == IF s = <<>> THEN 0 ELSE Head(s) + SeqSum(Tail(s))

RECURSIVE SeqMaxAbs(_)
SeqMaxAbs(s) == IF s = <<>> THEN 0 ELSE Max2(Abs(Head(s)), SeqMaxAbs(Tail(s)))

ISqrt(v) == CHOOSE r \in 0..v : r * r <= v /\ (r + 1) * (r + 1) > v

\* the spacing of floats around v
RECURSIVE F32Quantum(_, _)
F32Quantum(v, q) == IF Abs(v) \div q < F32Exact THEN q ELSE F32Quantum(v, 2 * q)

\* round to nearest float, ties to even
F32(v) ==
    LET q  == F32Quantum(v, 1)
        lo == (v \div q) * q
        r  == v - lo
    IN  IF 2 * r < q THEN lo
        ELSE IF 2 * r > q THEN lo + q
        ELSE IF (lo \div q) % 2 = 0 THEN lo ELSE lo + q

\* a value stored with element type ty
Store(ty, v) == IF ty = "float" THEN F32(v) ELSE v

-----------------------------------------------------------------------------
(* The native library's routines, on the vectors they are given *)

\* position (1-based) of logical element i (0-based) of an n-vector of stride inc
Pos(i, n, inc) == IF inc >= 0 THEN 1 + i * inc ELSE 1 + (n - 1 - i) * (-inc)

\* the n logical elements of x under stride inc
Gather(x, n, inc) == [i \in 1..n |-> x[Pos(i - 1, n, inc)]]

cublasAsum(n, x, incx) ==
    IF n < 1 \/ incx < 1 THEN 0
    ELSE SeqSum([i \in 1..n |-> Abs(Gather(x, n, incx)[i])])

cublasNrm2(n, x, incx) ==
    IF n < 1 \/ incx < 1 THEN 0
    ELSE ISqrt(SeqSum([i \in 1..n |-> Gather(x, n, incx)[i] * Gather(x, n, incx)[i]]))

cublasDot(n, x, incx, y, incy) ==
    IF n < 1 THEN 0
    ELSE SeqSum([i \in 1..n |-> Gather(x, n, incx)[i] * Gather(y, n, incy)[i]])

\* one-based index of the first element of largest magnitude
cublasIamax(n, x, incx) ==
    IF n < 1 \/ incx < 1 THEN 0
    ELSE LET g == Gather(x, n, incx)
         IN  CHOOSE i \in 1..n :
                 /\ \A j \in 1..n : Abs(g[j]) <= Abs(g[i])
                 /\ \A j \in 1..(i - 1) : Abs(g[j]) < Abs(g[i])

\* one-based index of the first element of smallest magnitude
cublasIamin(n, x, incx) ==
    IF n < 1 \/ incx < 1 THEN 0
    ELSE LET g == Gather(x, n, incx)
         IN  CHOOSE i \in 1..n :
                 /\ \A j \in 1..n : Abs(g[j]) >= Abs(g[i])
                 /\ \A j \in 1..(i - 1) : Abs(g[j]) > Abs(g[i])

\* element k of a long vector v
LongAt(v, k) == IF k = v.at THEN v.val ELSE v.rest

\* the logical elements (1-based) of a long vector that can be the first one of
\* extreme magnitude: all elements but one being equal, it is the first, the
\* second or the one that lies on position at
LongCandidates(n, v, incx) ==
    LET hit == IF (v.at - 1) % incx = 0 THEN (v.at - 1) \div incx + 1 ELSE 1
    IN  {j \in {1, 2, hit} : j <= n}

\* cublasIamax on a long vector
cublasIamaxLong(n, v, incx) ==
    IF n < 1 \/ incx < 1 THEN 0
    ELSE LET c    == LongCandidates(n, v, incx)
             g(j) == LongAt(v, Pos(j - 1, n, incx))
         IN  CHOOSE i \in c :
                 /\ \A j \in c : Abs(g(j)) <= Abs(g(i))
                 /\ \A j \in c : j < i => Abs(g(j)) < Abs(g(i))

\* cublasIamin on a long vector
cublasIaminLong(n, v, incx) ==
    IF n < 1 \/ incx < 1 THEN 0
    ELSE LET c    == LongCandidates(n, v, incx)
             g(j) == LongAt(v, Pos(j - 1, n, incx))
         IN  CHOOSE i \in c :
                 /\ \A j \in c : Abs(g(j)) >= Abs(g(i))
                 /\ \A j \in c : j < i => Abs(g(j)) > Abs(g(i))

RECURSIVE ScalLoop(_, _, _, _, _)
ScalLoop(i, n, a, x, incx) ==
    IF i >= n THEN x
    ELSE ScalLoop(i + 1, n, a, [x EXCEPT ![Pos(i, n, incx)] = a * @], incx)

cublasScal(n, a, x, incx) == IF n < 1 \/ incx < 1 THEN x ELSE ScalLoop(0, n, a, x, incx)

RECURSIVE AxpyLoop(_, _, _, _, _, _, _)
AxpyLoop(i, n, alpha, x, incx, y, incy) ==
    IF i >= n THEN y
    ELSE AxpyLoop(i + 1, n, alpha, x, incx,
                  [y EXCEPT ![Pos(i, n, incy)] = @ + alpha * x[Pos(i, n, incx)]], incy)

cublasAxpy(n, alpha, x, incx, y, incy) == AxpyLoop(0, n, alpha, x, incx, y, incy)

RECURSIVE CopyLoop(_, _, _, _, _, _)
CopyLoop(i, n, x, incx, y, incy) ==
    IF i >= n THEN y
    ELSE CopyLoop(i + 1, n, x, incx, [y EXCEPT ![Pos(i, n, incy)] = x[Pos(i, n, incx)]], incy)

cublasCopy(n, x, incx, y, incy) == CopyLoop(0, n, x, incx, y, incy)

\* <<x, y>> after the exchange
RECURSIVE SwapLoop(_, _, _, _, _, _)
SwapLoop(i, n, x, incx, y, incy) ==
    IF i >= n THEN <<x, y>>
    ELSE SwapLoop(i + 1, n,
                  [x EXCEPT ![Pos(i, n, incx)] = y[Pos(i, n, incy)]], incx,
                  [y EXCEPT ![Pos(i, n, incy)] = x[Pos(i, n, incx)]], incy)

cublasSwap(n, x, incx, y, incy) == SwapLoop(0, n, x, incx, y, incy)

\* <<x, y>> after applying the 2x2 matrix ((h11, h12), (h21, h22)) to every pair
RECURSIVE PlaneLoop(_, _, _, _, _, _, _)
PlaneLoop(i, n, x, incx, y, incy, h) ==
    IF i >= n THEN <<x, y>>
    ELSE LET xi == x[Pos(i, n, incx)]
             yi == y[Pos(i, n, incy)]
         IN  PlaneLoop(i + 1, n,
                       [x EXCEPT ![Pos(i, n, incx)] = h[1] * xi + h[2] * yi], incx,
                       [y EXCEPT ![Pos(i, n, incy)] = h[3] * xi + h[4] * yi], incy, h)

cublasRot(n, x, incx, y, incy, c, s) == PlaneLoop(0, n, x, incx, y, incy, <<c, s, -s, c>>)

\* param = <<flag, h11, h21, h12, h22>>
RotmMatrix(param) ==
    IF param[1] = -1 THEN <<param[2], param[4], param[3], param[5]>>
    ELSE IF param[1] = 0 THEN <<1, param[4], param[3], 1>>
    ELSE IF param[1] = 1 THEN <<param[2], 1, -1, param[5]>>
    ELSE <<1, 0, 0, 1>>

cublasRotm(n, x, incx, y, incy, param) ==
    PlaneLoop(0, n, x, incx, y, incy, RotmMatrix(param))

\* the Givens rotation of (a, b), for the pairs with a zero component, which are
\* the ones with integer results: <<r, z, c, s>>
cublasRotg(a, b) == IF b = 0 THEN <<a, 0, 1, 0>> ELSE <<b, 1, 0, 1>>

\* the modified Givens rotation, for the inputs with d1 < 0 or d2 * y1 = 0, which
\* are the ones with integer results: <<d1, d2, x1, param>>
cublasRotmg(d1, d2, x1, y1, param) ==
    IF d1 < 0 THEN <<0, 0, 0, <<-1, 0, 0, 0, 0>>>>
    ELSE <<d1, d2, x1, [param EXCEPT ![1] = -2]>>

-----------------------------------------------------------------------------
(* Buffers *)

\* local buffers an entry point wraps around its own storage; each invocation
\* has its own, kept in the invocation's tmp field
TempBufs == {"int_res_buff", "float_res_buff", "y1_buff"}

CallerBufs ==
    {"x", "xl", "y", "result", "result_double", "result_int64",
     "a", "b", "c", "s", "d1", "d2", "x1", "param"}

\* caller vectors too long to write out: such a vector is given by its length, one
\* position, the element at that position and the element at every other one
LongBufs == {"xl"}
LongVector(len, at, val, rest) == [len |-> len, at |-> at, val |-> val, rest |-> rest]

\* values of the caller's vector elements
ElemVals == {-2, 1}

\* what an uninitialised int or float may hold
Garbage == {-5, 4}

\* every caller buffer but x, as the caller filled it
InitBufs(x0) ==
    [b \in CallerBufs |->
        CASE b = "x" -> x0
          [] b = "xl" -> LongVector(IntMax, 1, 1, 1)
          [] b = "y" -> [i \in 1..VecLen |-> i]
          [] b \in {"result", "result_double", "result_int64"} -> <<7, 9>>
          [] b = "a" -> <<1>>
          [] b = "b" -> <<0>>
          [] b \in {"c", "s"} -> <<7>>
          [] b \in {"d1", "d2", "x1"} -> <<1>>
          [] OTHER -> <<-1, 0, -1, 1, 0>>]

\* the whole n-vector of stride inc lies inside a buffer of len elements
InBounds(n, inc, len) == IF n < 2 THEN TRUE ELSE Abs(inc) <= (len - 1) \div (n - 1)

-----------------------------------------------------------------------------
(* cublas_helper.hpp: argument validation *)

\* TRUE when overflow_check throws: n * max(|stride|) exceeds the native int
overflow_check_StrictMut(n, incs) ==
    LET m == SeqMaxAbs(incs)
    IN  m # 0 /\ Abs(n) >= IntMax \div m
overflow_check(n, incs) ==
    LET m == SeqMaxAbs(incs)
    IN  m # 0 /\ Abs(n) > IntMax \div m

-----------------------------------------------------------------------------
(* The launcher tables: element types of an overload and its native routine *)

Launcher(types, func) == [types |-> types, func |-> func]

ASUM_LAUNCHER ==
    { Launcher(<<"float", "float">>, "cublasSasum"),
      Launcher(<<"double", "double">>, "cublasDasum"),
      Launcher(<<"complex<float>", "float">>, "cublasScasum"),
      Launcher(<<"complex<double>", "double">>, "cublasDzasum") }

SCAL_LAUNCHER ==
    { Launcher(<<"float", "float">>, "cublasSscal"),
      Launcher(<<"double", "double">>, "cublasDscal"),
      Launcher(<<"complex<float>", "complex<float>">>, "cublasCscal"),
      Launcher(<<"complex<double>", "complex<double>">>, "cublasZscal"),
      Launcher(<<"float", "complex<float>">>, "cublasCsscal"),
      Launcher(<<"double", "complex<double>">>, "cublasZdscal") }

AXPY_LAUNCHER ==
    { Launcher(<<"float">>, "cublasSaxpy"),
      Launcher(<<"double">>, "cublasDaxpy"),
      Launcher(<<"complex<float>">>, "cublasCaxpy"),
      Launcher(<<"complex<double>">>, "cublasZaxpy") }

ROTG_LAUNCHER ==
    { Launcher(<<"float", "float">>, "cublasSrotg"),
      Launcher(<<"double", "double">>, "cublasDrotg"),
      Launcher(<<"complex<float>", "float">>, "cublasCrotg"),
      Launcher(<<"complex<double>", "double">>, "cublasZrotg") }

ROTM_LAUNCHER ==
    { Launcher(<<"float">>, "cublasSrotm"),
      Launcher(<<"double">>, "cublasDrotm") }

COPY_LAUNCHER ==
    { Launcher(<<"float">>, "cublasScopy"),
      Launcher(<<"double">>, "cublasDcopy"),
      Launcher(<<"complex<float>">>, "cublasCcopy"),
      Launcher(<<"complex<double>">>, "cublasZcopy") }

\* the entry point is dot, dotc or dotu: the EXT argument of the macro
DOT_LAUNCHER_ConjSwapMut ==
    { [ext |-> "", types |-> <<"float">>, func |-> "cublasSdot"],
      [ext |-> "", types |-> <<"double">>, func |-> "cublasDdot"],
      [ext |-> "c", types |-> <<"complex<float>">>, func |-> "cublasCdotu"],
      [ext |-> "c", types |-> <<"complex<double>">>, func |-> "cublasZdotu"],
      [ext |-> "u", types |-> <<"complex<float>">>, func |-> "cublasCdotc"],
      [ext |-> "u", types |-> <<"complex<double>">>, func |-> "cublasZdotc"] }
DOT_LAUNCHER ==
    { [ext |-> "", types |-> <<"float">>, func |-> "cublasSdot"],
      [ext |-> "", types |-> <<"double">>, func |-> "cublasDdot"],
      [ext |-> "c", types |-> <<"complex<float>">>, func |-> "cublasCdotc"],
      [ext |-> "c", types |-> <<"complex<double>">>, func |-> "cublasZdotc"],
      [ext |-> "u", types |-> <<"complex<float>">>, func |-> "cublasCdotu"],
      [ext |-> "u", types |-> <<"complex<double>">>, func |-> "cublasZdotu"] }

ROT_LAUNCHER ==
    { Launcher(<<"float", "float", "float">>, "cublasSrot"),
      Launcher(<<"double", "double", "double">>, "cublasDrot"),
      Launcher(<<"complex<float>", "float", "float">>, "cublasCsrot"),
      Launcher(<<"complex<double>", "double", "double">>, "cublasZdrot") }

ROTMG_LAUNCHER ==
    { Launcher(<<"float">>, "cublasSrotmg"),
      Launcher(<<"double">>, "cublasDrotmg") }

IAMAX_LAUNCHER ==
    { Launcher(<<"float">>, "cublasIsamax"),
      Launcher(<<"double">>, "cublasIdamax"),
      Launcher(<<"complex<float>">>, "cublasIcamax"),
      Launcher(<<"complex<double>">>, "cublasIzamax") }

SWAP_LAUNCHER ==
    { Launcher(<<"float">>, "cublasSswap"),
      Launcher(<<"double">>, "cublasDswap"),
      Launcher(<<"complex<float>">>, "cublasCswap"),
      Launcher(<<"complex<double>">>, "cublasZswap") }

IAMIN_LAUNCHER ==
    { Launcher(<<"float">>, "cublasIsamin"),
      Launcher(<<"double">>, "cublasIdamin"),
      Launcher(<<"complex<float>">>, "cublasIcamin"),
      Launcher(<<"complex<double>">>, "cublasIzamin") }

NRM2_LAUNCHER ==
    { Launcher(<<"float", "float">>, "cublasSnrm2"),
      Launcher(<<"double", "double">>, "cublasDnrm2"),
      Launcher(<<"complex<float>", "float">>, "cublasScnrm2"),
      Launcher(<<"complex<double>", "double">>, "cublasDznrm2") }

\* the type a stored result is rounded to
ElemType(types) ==
    IF types[1] \in {"float", "complex<float>"} THEN "float" ELSE "double"

-----------------------------------------------------------------------------
(* Invocations *)

Finished == {"done", "threw", "failed"}

\* an invocation's bookkeeping, added to its command group cg
Invocation(cg, pc, submits) ==
    cg @@ [pc |-> pc, submits |-> submits, calls |-> 0, status |-> -1,
           modeSet |-> FALSE, modeAtCall |-> "none", setterAtCall |-> 0,
           resolved |-> {}, pcAtHostStep |-> "none", hostRead |-> <<>>, hostWrote |-> <<>>,
           handle |-> 0, ptrsAtCall |-> {}]

\* queue.submit(...): the command group is handed to the runtime; the entry
\* points with a host-side tail stay inside the library
Submit(cg) ==
    /\ ops' = Append(ops, Invocation(cg, "submitted", 1))
    /\ host' = IF cg.blocking THEN Len(ops) + 1 ELSE 0
    /\ UNCHANGED <<bufs, handles, syncFaults, asyncFaults>>

\* the exception of overflow_check leaves the entry point
Throw(cg) ==
    /\ ops' = Append(ops, Invocation(cg, "threw", 0))
    /\ syncFaults' = Append(syncFaults, [op |-> Len(ops) + 1, what |-> "overflow"])
    /\ UNCHANGED <<bufs, handles, host, asyncFaults>>

\* overflow_check(...); queue.submit(...);
EntryMutNoCheck(overflow, cg) == Submit(cg)
Entry(overflow, cg) == IF overflow THEN Throw(cg) ELSE Submit(cg)

-----------------------------------------------------------------------------
(* The entry points.  x, y, result, ... are the caller's buffers of that name. *)

asum_SignedStrideMut(func, types, queue, n, incx) ==
    Entry(overflow_check(n, <<incx>>),
          [routine |-> "asum", kind |-> "asum", func |-> func, types |-> types,
           queue |-> queue, n |-> n, incx |-> incx, incy |-> 0, scalars |-> <<>>,
           acc |-> {<<"x", "read">>, <<"result", "write">>},
           setsMode |-> TRUE,
           args |-> [n |-> n, incx |-> incx, incy |-> 0, hostptrs |-> <<>>,
                     ptrs |-> <<"x", "result">>],
           tmp |-> <<>>, tmpInit |-> FALSE, blocking |-> FALSE])
asum(func, types, queue, n, incx) ==
    Entry(overflow_check(n, <<incx>>),
          [routine |-> "asum", kind |-> "asum", func |-> func, types |-> types,
           queue |-> queue, n |-> n, incx |-> incx, incy |-> 0, scalars |-> <<>>,
           acc |-> {<<"x", "read">>, <<"result", "write">>},
           setsMode |-> TRUE,
           args |-> [n |-> n, incx |-> Abs(incx), incy |-> 0, hostptrs |-> <<>>,
                     ptrs |-> <<"x", "result">>],
           tmp |-> <<>>, tmpInit |-> FALSE, blocking |-> FALSE])

scal_SignedStrideMut(func, types, queue, n, a, incx) ==
    Entry(overflow_check(n, <<incx>>),
          [routine |-> "scal", kind |-> "scal", func |-> func, types |-> types,
           queue |-> queue, n |-> n, incx |-> incx, incy |-> 0, scalars |-> <<a>>,
           acc |-> {<<"x", "read_write">>},
           setsMode |-> FALSE,
           args |-> [n |-> n, incx |-> incx, incy |-> 0, hostptrs |-> <<a>>,
                     ptrs |-> <<"x">>],
           tmp |-> <<>>, tmpInit |-> FALSE, blocking |-> FALSE])
scal(func, types, queue, n, a, incx) ==
    Entry(overflow_check(n, <<incx>>),
          [routine |-> "scal", kind |-> "scal", func |-> func, types |-> types,
           queue |-> queue, n |-> n, incx |-> incx, incy |-> 0, scalars |-> <<a>>,
           acc |-> {<<"x", "read_write">>},
           setsMode |-> FALSE,
           args |-> [n |-> n, incx |-> Abs(incx), incy |-> 0, hostptrs |-> <<a>>,
                     ptrs |-> <<"x">>],
           tmp |-> <<>>, tmpInit |-> FALSE, blocking |-> FALSE])

axpy_AbsStrideMut(func, types, queue, n, alpha, incx, incy) ==
    Entry(overflow_check(n, <<incx, incy>>),
          [routine |-> "axpy", kind |-> "axpy", func |-> func, types |-> types,
           queue |-> queue, n |-> n, incx |-> incx, incy |-> incy, scalars |-> <<alpha>>,
           acc |-> {<<"x", "read">>, <<"y", "read_write">>},
           setsMode |-> FALSE,
           args |-> [n |-> n, incx |-> Abs(incx), incy |-> incy, hostptrs |-> <<alpha>>,
                     ptrs |-> <<"x", "y">>],
           tmp |-> <<>>, tmpInit |-> FALSE, blocking |-> FALSE])
axpy_SwappedOperandsMut(func, types, queue, n, alpha, incx, incy) ==
    Entry(overflow_check(n, <<incx, incy>>),
          [routine |-> "axpy", kind |-> "axpy", func |-> func, types |-> types,
           queue |-> queue, n |-> n, incx |-> incx, incy |-> incy, scalars |-> <<alpha>>,
           acc |-> {<<"y", "read">>, <<"x", "read_write">>},
           setsMode |-> FALSE,
           args |-> [n |-> n, incx |-> incy, incy |-> incx, hostptrs |-> <<alpha>>,
                     ptrs |-> <<"y", "x">>],
           tmp |-> <<>>, tmpInit |-> FALSE, blocking |-> FALSE])
axpy(func, types, queue, n, alpha, incx, incy) ==
    Entry(overflow_check(n, <<incx, incy>>),
          [routine |-> "axpy", kind |-> "axpy", func |-> func, types |-> types,
           queue |-> queue, n |-> n, incx |-> incx, incy |-> incy, scalars |-> <<alpha>>,
           acc |-> {<<"x", "read">>, <<"y", "read_write">>},
           setsMode |-> FALSE,
           args |-> [n |-> n, incx |-> incx, incy |-> incy, hostptrs |-> <<alpha>>,
                     ptrs |-> <<"x", "y">>],
           tmp |-> <<>>, tmpInit |-> FALSE, blocking |-> FALSE])

rotg(func, types, queue) ==
    Submit([routine |-> "rotg", kind |-> "rotg", func |-> func, types |-> types,
            queue |-> queue, n |-> 0, incx |-> 0, incy |-> 0, scalars |-> <<>>,
            acc |-> {<<"a", "read_write">>, <<"b", "read_write">>,
                     <<"c", "read_write">>, <<"s", "read_write">>},
            setsMode |-> TRUE,
            args |-> [n |-> 0, incx |-> 0, incy |-> 0, hostptrs |-> <<>>,
                      ptrs |-> <<"a", "b", "c", "s">>],
            tmp |-> <<>>, tmpInit |-> FALSE, blocking |-> FALSE])

rotm(func, types, queue, n, incx, incy) ==
    Entry(overflow_check(n, <<incx, incy>>),
          [routine |-> "rotm", kind |-> "rotm", func |-> func, types |-> types,
           queue |-> queue, n |-> n, incx |-> incx, incy |-> incy, scalars |-> <<>>,
           acc |-> {<<"x", "read_write">>, <<"y", "read_write">>, <<"param", "read">>},
           setsMode |-> TRUE,
           args |-> [n |-> n, incx |-> incx, incy |-> incy, hostptrs |-> <<>>,
                     ptrs |-> <<"x", "y", "param">>],
           tmp |-> <<>>, tmpInit |-> FALSE, blocking |-> FALSE])

copy_ReadOnlyYMut(func, types, queue, n, incx, incy) ==
    Entry(overflow_check(n, <<incx, incy>>),
          [routine |-> "copy", kind |-> "copy", func |-> func, types |-> types,
           queue |-> queue, n |-> n, incx |-> incx, incy |-> incy, scalars |-> <<>>,
           acc |-> {<<"x", "read">>, <<"y", "read">>},
           setsMode |-> FALSE,
           args |-> [n |-> n, incx |-> incx, incy |-> incy, hostptrs |-> <<>>,
                     ptrs |-> <<"x", "y">>],
           tmp |-> <<>>, tmpInit |-> FALSE, blocking |-> FALSE])
copy_AbsStrideMut(func, types, queue, n, incx, incy) ==
    Entry(overflow_check(n, <<incx, incy>>),
          [routine |-> "copy", kind |-> "copy", func |-> func, types |-> types,
           queue |-> queue, n |-> n, incx |-> incx, incy |-> incy, scalars |-> <<>>,
           acc |-> {<<"x", "read">>, <<"y", "read_write">>},
           setsMode |-> FALSE,
           args |-> [n |-> n, incx |-> Abs(incx), incy |-> incy, hostptrs |-> <<>>,
                     ptrs |-> <<"x", "y">>],
           tmp |-> <<>>, tmpInit |-> FALSE, blocking |-> FALSE])
copy(func, types, queue, n, incx, incy) ==
    Entry(overflow_check(n, <<incx, incy>>),
          [routine |-> "copy", kind |-> "copy", func |-> func, types |-> types,
           queue |-> queue, n |-> n, incx |-> incx, incy |-> incy, scalars |-> <<>>,
           acc |-> {<<"x", "read">>, <<"y", "read_write">>},
           setsMode |-> FALSE,
           args |-> [n |-> n, incx |-> incx, incy |-> incy, hostptrs |-> <<>>,
                     ptrs |-> <<"x", "y">>],
           tmp |-> <<>>, tmpInit |-> FALSE, blocking |-> FALSE])

\* ext is "", "c" or "u": the entry point dot, dotc or dotu
dot(ext, func, types, queue, n, incx, incy) ==
    Entry(overflow_check(n, <<incx, incy>>),
          [routine |-> "dot" \o ext, kind |-> "dot", func |-> func, types |-> types,
           queue |-> queue, n |-> n, incx |-> incx, incy |-> incy, scalars |-> <<>>,
           acc |-> {<<"x", "read">>, <<"y", "read">>, <<"result", "write">>},
           setsMode |-> TRUE,
           args |-> [n |-> n, incx |-> incx, incy |-> incy, hostptrs |-> <<>>,
                     ptrs |-> <<"x", "y", "result">>],
           tmp |-> <<>>, tmpInit |-> FALSE, blocking |-> FALSE])

rot(func, types, queue, n, incx, incy, c, s) ==
    Entry(overflow_check(n, <<incx, incy>>),
          [routine |-> "rot", kind |-> "rot", func |-> func, types |-> types,
           queue |-> queue, n |-> n, incx |-> incx, incy |-> incy, scalars |-> <<c, s>>,
           acc |-> {<<"x", "read_write">>, <<"y", "read_write">>},
           setsMode |-> FALSE,
           args |-> [n |-> n, incx |-> incx, incy |-> incy, hostptrs |-> <<c, s>>,
                     ptrs |-> <<"x", "y">>],
           tmp |-> <<>>, tmpInit |-> FALSE, blocking |-> FALSE])

\* up to the end of queue.submit; sdsdot_host_add is the rest
sdsdot(queue, n, sb, incx, incy) ==
    Entry(overflow_check(n, <<incx, incy>>),
          [routine |-> "sdsdot", kind |-> "dot", func |-> "cublasSdot",
           types |-> <<"float">>,
           queue |-> queue, n |-> n, incx |-> incx, incy |-> incy, scalars |-> <<sb>>,
           acc |-> {<<"x", "read">>, <<"y", "read">>, <<"result", "write">>},
           setsMode |-> TRUE,
           args |-> [n |-> n, incx |-> incx, incy |-> incy, hostptrs |-> <<>>,
                     ptrs |-> <<"x", "y", "result">>],
           tmp |-> <<>>, tmpInit |-> FALSE, blocking |-> TRUE])

\* dot(queue, n, buffer<float> x, incx, buffer<float> y, incy, buffer<double> result),
\* up to the end of queue.submit; dot_float_double_host_cast is the rest
dot_float_double_DirectMut(queue, n, incx, incy) ==
    Entry(overflow_check(n, <<incx, incy>>),
          [routine |-> "dot_float_double", kind |-> "dot", func |-> "cublasSdot",
           types |-> <<"float">>,
           queue |-> queue, n |-> n, incx |-> incx, incy |-> incy, scalars |-> <<>>,
           acc |-> {<<"x", "read">>, <<"y", "read">>, <<"result_double", "write">>},
           setsMode |-> TRUE,
           args |-> [n |-> n, incx |-> incx, incy |-> incy, hostptrs |-> <<>>,
                     ptrs |-> <<"x", "y", "result_double">>],
           tmp |-> <<0>>, tmpInit |-> FALSE, blocking |-> TRUE])
dot_float_double(queue, n, incx, incy) ==
    Entry(overflow_check(n, <<incx, incy>>),
          [routine |-> "dot_float_double", kind |-> "dot", func |-> "cublasSdot",
           types |-> <<"float">>,
           queue |-> queue, n |-> n, incx |-> incx, incy |-> incy, scalars |-> <<>>,
           acc |-> {<<"x", "read">>, <<"y", "read">>, <<"float_res_buff", "write">>},
           setsMode |-> TRUE,
           args |-> [n |-> n, incx |-> incx, incy |-> incy, hostptrs |-> <<>>,
                     ptrs |-> <<"x", "y", "float_res_buff">>],
           tmp |-> <<0>>, tmpInit |-> FALSE, blocking |-> TRUE])

\* up to the end of queue.submit; rotmg_return is the rest
rotmg(func, types, queue, y1) ==
    Submit([routine |-> "rotmg", kind |-> "rotmg", func |-> func, types |-> types,
            queue |-> queue, n |-> 0, incx |-> 0, incy |-> 0, scalars |-> <<y1>>,
            acc |-> {<<"d1", "read_write">>, <<"d2", "read_write">>,
                     <<"x1", "read_write">>, <<"y1_buff", "read">>,
                     <<"param", "read_write">>},
            setsMode |-> TRUE,
            args |-> [n |-> 0, incx |-> 0, incy |-> 0, hostptrs |-> <<>>,
                      ptrs |-> <<"d1", "d2", "x1", "y1_buff", "param">>],
            tmp |-> <<y1>>, tmpInit |-> TRUE, blocking |-> TRUE])

\* up to the end of queue.submit; iamax_host_convert is the rest
iamax_NoReadBackMut(func, types, queue, n, x, incx) ==
    Entry(overflow_check(n, <<incx>>),
          [routine |-> "iamax", kind |-> "iamax", func |-> func, types |-> types,
           queue |-> queue, n |-> n, incx |-> incx, incy |-> 0, scalars |-> <<>>,
           acc |-> {<<x, "read">>, <<"int_res_buff", "write">>},
           setsMode |-> TRUE,
           args |-> [n |-> n, incx |-> incx, incy |-> 0, hostptrs |-> <<>>,
                     ptrs |-> <<x, "int_res_buff">>],
           tmp |-> <<0>>, tmpInit |-> FALSE, blocking |-> FALSE])
iamax(func, types, queue, n, x, incx) ==
    Entry(overflow_check(n, <<incx>>),
          [routine |-> "iamax", kind |-> "iamax", func |-> func, types |-> types,
           queue |-> queue, n |-> n, incx |-> incx, incy |-> 0, scalars |-> <<>>,
           acc |-> {<<x, "read">>, <<"int_res_buff", "write">>},
           setsMode |-> TRUE,
           args |-> [n |-> n, incx |-> incx, incy |-> 0, hostptrs |-> <<>>,
                     ptrs |-> <<x, "int_res_buff">>],
           tmp |-> <<0>>, tmpInit |-> FALSE, blocking |-> TRUE])

swap_ReadOnlyMut(func, types, queue, n, incx, incy) ==
    Entry(overflow_check(n, <<incx, incy>>),
          [routine |-> "swap", kind |-> "swap", func |-> func, types |-> types,
           queue |-> queue, n |-> n, incx |-> incx, incy |-> incy, scalars |-> <<>>,
           acc |-> {<<"x", "read">>, <<"y", "read">>},
           setsMode |-> FALSE,
           args |-> [n |-> n, incx |-> incx, incy |-> incy, hostptrs |-> <<>>,
                     ptrs |-> <<"x", "y">>],
           tmp |-> <<>>, tmpInit |-> FALSE, blocking |-> FALSE])
swap(func, types, queue, n, incx, incy) ==
    Entry(overflow_check(n, <<incx, incy>>),
          [routine |-> "swap", kind |-> "swap", func |-> func, types |-> types,
           queue |-> queue, n |-> n, incx |-> incx, incy |-> incy, scalars |-> <<>>,
           acc |-> {<<"x", "read_write">>, <<"y", "read_write">>},
           setsMode |-> FALSE,
           args |-> [n |-> n, incx |-> incx, incy |-> incy, hostptrs |-> <<>>,
                     ptrs |-> <<"x", "y">>],
           tmp |-> <<>>, tmpInit |-> FALSE, blocking |-> FALSE])

\* up to the end of queue.submit; iamin_host_convert is the rest
iamin(func, types, queue, n, x, incx) ==
    Entry(overflow_check(n, <<incx>>),
          [routine |-> "iamin", kind |-> "iamin", func |-> func, types |-> types,
           queue |-> queue, n |-> n, incx |-> incx, incy |-> 0, scalars |-> <<>>,
           acc |-> {<<x, "read">>, <<"int_res_buff", "write">>},
           setsMode |-> TRUE,
           args |-> [n |-> n, incx |-> incx, incy |-> 0, hostptrs |-> <<>>,
                     ptrs |-> <<x, "int_res_buff">>],
           tmp |-> <<0>>, tmpInit |-> FALSE, blocking |-> TRUE])

nrm2(func, types, queue, n, incx) ==
    Entry(overflow_check(n, <<incx>>),
          [routine |-> "nrm2", kind |-> "nrm2", func |-> func, types |-> types,
           queue |-> queue, n |-> n, incx |-> incx, incy |-> 0, scalars |-> <<>>,
           acc |-> {<<"x", "read">>, <<"result", "write">>},
           setsMode |-> TRUE,
           args |-> [n |-> n, incx |-> Abs(incx), incy |-> 0, hostptrs |-> <<>>,
                     ptrs |-> <<"x", "result">>],
           tmp |-> <<>>, tmpInit |-> FALSE, blocking |-> FALSE])

-----------------------------------------------------------------------------
(* The runtime: scheduling of command groups and host accessors *)

Writes(mode) == mode # "read"

\* two command groups name the same caller buffer and one of them writes it
Conflict(o1, o2) ==
    \E a1 \in o1.acc, a2 \in o2.acc :
        /\ a1[1] = a2[1]
        /\ a1[1] \in CallerBufs
        /\ (Writes(a1[2]) \/ Writes(a2[2]))

\* the runtime starts a task once the earlier command groups it depends on are over
DepsDone(i) ==
    \A j \in 1..(i - 1) : Conflict(ops[j], ops[i]) => ops[j].pc \in Finished

\* a host accessor of mode on caller buffer b is granted once every command
\* group it conflicts with is over
HostAccessReady(b, mode) ==
    \A j \in 1..Len(ops) :
        (\E a \in ops[j].acc : a[1] = b /\ (Writes(a[2]) \/ Writes(mode)))
            => ops[j].pc \in Finished

\* a host accessor on invocation i's own local buffer waits for i's task
TempAccessReady(i) == ops[i].pc \in Finished

\* what buffer b holds, as invocation o's task sees it
Content(o, b) == IF b \in TempBufs THEN o.tmp ELSE bufs[b]

-----------------------------------------------------------------------------
(* The interop task of invocation i *)

\* auto sc = CublasScopedContextHandler(queue); auto handle = sc.get_handle(queue);
\* under the cache's lock, the handle of the queue's context is looked up and
\* created when the cache has none; a context that cannot be bound makes the
\* acquisition throw inside the task.  A handle is named by its context and the
\* number of handles created for that context so far.
get_handle_NoCacheMut(i) ==
    LET c == CtxOf(ops[i].queue)
    IN  /\ ops[i].pc = "submitted"
        /\ DepsDone(i)
        /\ handles' = [handles EXCEPT ![c].created = TRUE, ![c].made = @ + 1]
        /\ ops' = [ops EXCEPT ![i].pc = "handle", ![i].handle = handles[c].made + 1]
        /\ UNCHANGED <<bufs, host, syncFaults, asyncFaults>>
get_handle_RacyMut(i) ==
    LET c     == CtxOf(ops[i].queue)
        racing == \E j \in 1..Len(ops) :
                     /\ j # i
                     /\ CtxOf(ops[j].queue) = c
                     /\ ops[j].pc \in {"handle", "mode", "mem"}
        k     == IF handles[c].created /\ ~racing THEN handles[c].made
                 ELSE handles[c].made + 1
    IN  /\ ops[i].pc = "submitted"
        /\ DepsDone(i)
        /\ handles' = [handles EXCEPT ![c].created = TRUE, ![c].made = k]
        /\ ops' = [ops EXCEPT ![i].pc = "handle", ![i].handle = k]
        /\ UNCHANGED <<bufs, host, syncFaults, asyncFaults>>
get_handle(i) ==
    LET c == CtxOf(ops[i].queue)
        k == IF handles[c].created THEN handles[c].made ELSE handles[c].made + 1
    IN  /\ ops[i].pc = "submitted"
        /\ DepsDone(i)
        /\ IF Usable(ops[i].queue)
           THEN /\ handles' = [handles EXCEPT ![c].created = TRUE, ![c].made = k]
                /\ ops' = [ops EXCEPT ![i].pc = "handle", ![i].handle = k]
                /\ UNCHANGED asyncFaults
           ELSE /\ ops' = [ops EXCEPT ![i].pc = "failed"]
                /\ asyncFaults' = asyncFaults \cup
                      {[op |-> i, name |-> "get_handle", code |-> CUDA_ERROR_INVALID_CONTEXT]}
                /\ UNCHANGED handles
        /\ UNCHANGED <<bufs, host, syncFaults>>

\* cublasSetPointerMode(handle, CUBLAS_POINTER_MODE_DEVICE);
cublasSetPointerModeMutHost(i) ==
    /\ ops[i].pc = "handle"
    /\ ops[i].setsMode
    /\ ops' = [ops EXCEPT ![i].pc = "mode", ![i].modeSet = TRUE]
    /\ handles' = [handles EXCEPT ![CtxOf(ops[i].queue)].mode = "HOST",
                                  ![CtxOf(ops[i].queue)].setter = i]
    /\ UNCHANGED <<bufs, host, syncFaults, asyncFaults>>
cublasSetPointerMode(i) ==
    /\ ops[i].pc = "handle"
    /\ ops[i].setsMode
    /\ ops' = [ops EXCEPT ![i].pc = "mode", ![i].modeSet = TRUE]
    /\ handles' = [handles EXCEPT ![CtxOf(ops[i].queue)].mode = "DEVICE",
                                  ![CtxOf(ops[i].queue)].setter = i]
    /\ UNCHANGED <<bufs, host, syncFaults, asyncFaults>>

\* auto x_ = sc.get_mem<...>(ih, x_acc); ... : one pointer per accessor
get_mem_BeforeHandleMut(i) ==
    /\ \/ ops[i].pc = "mode"
       \/ ops[i].pc = "handle" /\ ~ops[i].setsMode
       \/ ops[i].pc = "submitted" /\ DepsDone(i)
    /\ ops' = [ops EXCEPT ![i].pc = "mem",
                          ![i].resolved = {a[1] : a \in ops[i].acc}]
    /\ UNCHANGED <<bufs, handles, host, syncFaults, asyncFaults>>
get_mem(i) ==
    /\ \/ ops[i].pc = "mode"
       \/ ops[i].pc = "handle" /\ ~ops[i].setsMode
    /\ ops' = [ops EXCEPT ![i].pc = "mem",
                          ![i].resolved = {a[1] : a \in ops[i].acc}]
    /\ UNCHANGED <<bufs, handles, host, syncFaults, asyncFaults>>

\* routines that take scalars by host address
TakesHostScalars(o) == o.args.hostptrs # <<>>

\* routines whose scalar results or parameters are device addresses
TakesDeviceScalars(o) ==
    o.kind \in {"asum", "nrm2", "dot", "iamax", "iamin", "rotg", "rotmg", "rotm"}

\* the scalars the native routine reads through its host pointers: in device
\* pointer mode it dereferences them as device addresses and reads anything
ScalarsRead(o, mode) ==
    IF mode = "HOST" THEN {o.args.hostptrs}
    ELSE [DOMAIN o.args.hostptrs -> Garbage]

\* the buffers the native routine writes and their new contents, given the
\* scalars sc it read
NativeWrites(o, sc) ==
    LET p  == o.args.ptrs
        a  == o.args
        et == ElemType(o.types)
    IN  CASE o.kind = "asum" ->
               p[2] :> [Content(o, p[2]) EXCEPT
                           ![1] = Store(et, cublasAsum(a.n, Content(o, p[1]), a.incx))]
          [] o.kind = "nrm2" ->
               p[2] :> [Content(o, p[2]) EXCEPT
                           ![1] = Store(et, cublasNrm2(a.n, Content(o, p[1]), a.incx))]
          [] o.kind = "dot" ->
               p[3] :> [Content(o, p[3]) EXCEPT
                           ![1] = Store(et, cublasDot(a.n, Content(o, p[1]), a.incx,
                                                      Content(o, p[2]), a.incy))]
          [] o.kind = "iamax" ->
               p[2] :> [Content(o, p[2]) EXCEPT
                           ![1] = IF p[1] \in LongBufs
                                  THEN cublasIamaxLong(a.n, Content(o, p[1]), a.incx)
                                  ELSE cublasIamax(a.n, Content(o, p[1]), a.incx)]
          [] o.kind = "iamin" ->
               p[2] :> [Content(o, p[2]) EXCEPT
                           ![1] = IF p[1] \in LongBufs
                                  THEN cublasIaminLong(a.n, Content(o, p[1]), a.incx)
                                  ELSE cublasIamin(a.n, Content(o, p[1]), a.incx)]
          [] o.kind = "scal" ->
               p[1] :> cublasScal(a.n, sc[1], Content(o, p[1]), a.incx)
          [] o.kind = "axpy" ->
               p[2] :> cublasAxpy(a.n, sc[1], Content(o, p[1]), a.incx,
                                  Content(o, p[2]), a.incy)
          [] o.kind = "copy" ->
               p[2] :> cublasCopy(a.n, Content(o, p[1]), a.incx, Content(o, p[2]), a.incy)
          [] o.kind = "swap" ->
               LET r == cublasSwap(a.n, Content(o, p[1]), a.incx, Content(o, p[2]), a.incy)
               IN  (p[1] :> r[1]) @@ (p[2] :> r[2])
          [] o.kind = "rot" ->
               LET r == cublasRot(a.n, Content(o, p[1]), a.incx, Content(o, p[2]), a.incy,
                                  sc[1], sc[2])
               IN  (p[1] :> r[1]) @@ (p[2] :> r[2])
          [] o.kind = "rotm" ->
               LET r == cublasRotm(a.n, Content(o, p[1]), a.incx, Content(o, p[2]), a.incy,
                                   Content(o, p[3]))
               IN  (p[1] :> r[1]) @@ (p[2] :> r[2])
          [] o.kind = "rotg" ->
               LET r == cublasRotg(Content(o, p[1])[1], Content(o, p[2])[1])
               IN  (p[1] :> <<r[1]>>) @@ (p[2] :> <<r[2]>>)
                       @@ (p[3] :> <<r[3]>>) @@ (p[4] :> <<r[4]>>)
          [] OTHER ->
               LET r == cublasRotmg(Content(o, p[1])[1], Content(o, p[2])[1],
                                    Content(o, p[3])[1], Content(o, p[4])[1],
                                    Content(o, p[5]))
               IN  (p[1] :> <<r[1]>>) @@ (p[2] :> <<r[2]>>)
                       @@ (p[3] :> <<r[3]>>) @@ (p[5] :> r[4])

\* the first argument of CUBLAS_ERROR_FUNC as the task's code spells it: the
\* templated routines pass their function-pointer parameter func, the two
\* hard-wired dot products pass cublasSdot; the macro can name only this token
MacroName(o) ==
    IF o.routine \in {"sdsdot", "dot_float_double"} THEN "cublasSdot" ELSE "func"

\* what the macro throws for status err of the call spelled name: nothing on
\* success, else a cublas_error carrying that spelling and the status
cublas_error_SwallowMut(i, name, err) == {}
cublas_error(i, name, err) ==
    IF err # CUBLAS_STATUS_SUCCESS THEN {[op |-> i, name |-> name, code |-> err]} ELSE {}

\* the buffers whose device copy the runtime takes as the current one after the
\* task: those the command group acquired for writing
Dirty(o) == {a[1] : a \in {m \in o.acc : Writes(m[2])}}

\* CUBLAS_ERROR_FUNC(func, err, handle, ...): err = func(handle, ...), and a status
\* other than success is thrown; the runtime collects what a task throws.  When the
\* routine succeeds it has written its outputs, unless the handle's pointer mode made
\* it take device addresses for host ones.  The task ends here, and with it the
\* pointers its local variables held.
CUBLAS_ERROR_FUNC_RetryMut(i) ==
    LET o    == ops[i]
        mode == handles[CtxOf(o.queue)].mode
    IN  /\ o.pc = "mem"
        /\ \E err \in StatusCodes, sc \in ScalarsRead(o, mode) :
              LET nw == IF err = CUBLAS_STATUS_SUCCESS
                           /\ ~(TakesDeviceScalars(o) /\ mode = "HOST")
                        THEN NativeWrites(o, sc)
                        ELSE <<>>
                  w  == [b \in DOMAIN nw \cap Dirty(o) |-> nw[b]]
                  t  == DOMAIN w \cap TempBufs
              IN  /\ bufs' = [b \in CallerBufs |-> IF b \in DOMAIN w THEN w[b] ELSE bufs[b]]
                  /\ ops' = [ops EXCEPT
                                ![i].pc = IF err = CUBLAS_STATUS_SUCCESS THEN "done" ELSE "mem",
                                ![i].status = err,
                                ![i].calls = @ + 1,
                                ![i].modeAtCall = mode,
                                ![i].setterAtCall = handles[CtxOf(o.queue)].setter,
                                ![i].ptrsAtCall = o.resolved,
                                ![i].resolved = IF err = CUBLAS_STATUS_SUCCESS THEN {} ELSE @,
                                ![i].tmp = IF t = {} THEN @ ELSE w[CHOOSE b \in t : TRUE],
                                ![i].tmpInit = @ \/ t # {}]
                  /\ asyncFaults' = asyncFaults \cup cublas_error(i, MacroName(o), err)
        /\ UNCHANGED <<handles, host, syncFaults>>
CUBLAS_ERROR_FUNC_KeepPtrMut(i) ==
    LET o    == ops[i]
        mode == handles[CtxOf(o.queue)].mode
    IN  /\ o.pc = "mem"
        /\ \E err \in StatusCodes, sc \in ScalarsRead(o, mode) :
              LET nw == IF err = CUBLAS_STATUS_SUCCESS
                           /\ ~(TakesDeviceScalars(o) /\ mode = "HOST")
                        THEN NativeWrites(o, sc)
                        ELSE <<>>
                  w  == [b \in DOMAIN nw \cap Dirty(o) |-> nw[b]]
                  t  == DOMAIN w \cap TempBufs
              IN  /\ bufs' = [b \in CallerBufs |-> IF b \in DOMAIN w THEN w[b] ELSE bufs[b]]
                  /\ ops' = [ops EXCEPT
                                ![i].pc = "done",
                                ![i].status = err,
                                ![i].calls = @ + 1,
                                ![i].modeAtCall = mode,
                                ![i].setterAtCall = handles[CtxOf(o.queue)].setter,
                                ![i].ptrsAtCall = o.resolved,
                                ![i].resolved = @,
                                ![i].tmp = IF t = {} THEN @ ELSE w[CHOOSE b \in t : TRUE],
                                ![i].tmpInit = @ \/ t # {}]
                  /\ asyncFaults' = asyncFaults \cup cublas_error(i, MacroName(o), err)
        /\ UNCHANGED <<handles, host, syncFaults>>
CUBLAS_ERROR_FUNC(i) ==
    LET o    == ops[i]
        mode == handles[CtxOf(o.queue)].mode
    IN  /\ o.pc = "mem"
        /\ \E err \in StatusCodes, sc \in ScalarsRead(o, mode) :
              LET nw == IF err = CUBLAS_STATUS_SUCCESS
                           /\ ~(TakesDeviceScalars(o) /\ mode = "HOST")
                        THEN NativeWrites(o, sc)
                        ELSE <<>>
                  w  == [b \in DOMAIN nw \cap Dirty(o) |-> nw[b]]
                  t  == DOMAIN w \cap TempBufs
              IN  /\ bufs' = [b \in CallerBufs |-> IF b \in DOMAIN w THEN w[b] ELSE bufs[b]]
                  /\ ops' = [ops EXCEPT
                                ![i].pc = "done",
                                ![i].status = err,
                                ![i].calls = @ + 1,
                                ![i].modeAtCall = mode,
                                ![i].setterAtCall = handles[CtxOf(o.queue)].setter,
                                ![i].ptrsAtCall = o.resolved,
                                ![i].resolved = {},
                                ![i].tmp = IF t = {} THEN @ ELSE w[CHOOSE b \in t : TRUE],
                                ![i].tmpInit = @ \/ t # {}]
                  /\ asyncFaults' = asyncFaults \cup cublas_error(i, MacroName(o), err)
        /\ UNCHANGED <<handles, host, syncFaults>>

-----------------------------------------------------------------------------
(* The host-side tails of the entry points *)

\* what a host read of invocation i's scratch buffer may return
ScratchValues(i) == IF ops[i].tmpInit THEN {ops[i].tmp[1]} ELSE Garbage

\* result.get_access<read_write>()[0] += sb;
sdsdot_host_add_NoWaitMut(i) ==
    /\ host = i
    /\ ops[i].routine = "sdsdot"
    /\ bufs' = [bufs EXCEPT !["result"][1] = F32(@ + ops[i].scalars[1])]
    /\ ops' = [ops EXCEPT ![i].pcAtHostStep = ops[i].pc,
                          ![i].hostRead = <<bufs["result"][1]>>,
                          ![i].hostWrote = <<F32(bufs["result"][1] + ops[i].scalars[1])>>]
    /\ host' = 0
    /\ UNCHANGED <<handles, syncFaults, asyncFaults>>
sdsdot_host_add(i) ==
    /\ host = i
    /\ ops[i].routine = "sdsdot"
    /\ HostAccessReady("result", "read_write")
    /\ bufs' = [bufs EXCEPT !["result"][1] = F32(@ + ops[i].scalars[1])]
    /\ ops' = [ops EXCEPT ![i].pcAtHostStep = ops[i].pc,
                          ![i].hostRead = <<bufs["result"][1]>>,
                          ![i].hostWrote = <<F32(bufs["result"][1] + ops[i].scalars[1])>>]
    /\ host' = 0
    /\ UNCHANGED <<handles, syncFaults, asyncFaults>>

\* what a stale host copy of a buffer element may hold
Stale == {CHOOSE g \in Garbage : TRUE}

\* what a host accessor of mode discard_write finds in a buffer that held old: the
\* previous contents are discarded, so the accessor shows either the elements the
\* host copy happens to keep or stale ones
DiscardWrite(old) == {old} \cup [DOMAIN old -> Stale]

\* result.get_access<discard_write>()[0] = (double)float_res_buff.get_access<read>()[0];
dot_float_double_host_cast(i) ==
    /\ host = i
    /\ ops[i].routine = "dot_float_double"
    /\ TempAccessReady(i)
    /\ HostAccessReady("result_double", "discard_write")
    /\ \E r \in ScratchValues(i), d \in DiscardWrite(bufs["result_double"]) :
          /\ bufs' = [bufs EXCEPT !["result_double"] = [d EXCEPT ![1] = r]]
          /\ ops' = [ops EXCEPT ![i].pcAtHostStep = ops[i].pc,
                                ![i].hostRead = <<r>>,
                                ![i].hostWrote = <<r>>]
    /\ host' = 0
    /\ UNCHANGED <<handles, syncFaults, asyncFaults>>

\* result.get_access<write>()[0] = std::max((int64_t)int_res_buff.get_access<read>()[0] - 1, 0);
iamax_host_convert_OneBasedMut(i) ==
    /\ host = i
    /\ ops[i].routine = "iamax"
    /\ TempAccessReady(i)
    /\ HostAccessReady("result_int64", "write")
    /\ \E r \in ScratchValues(i) :
          /\ bufs' = [bufs EXCEPT !["result_int64"][1] = Max2(r, 0)]
          /\ ops' = [ops EXCEPT ![i].pcAtHostStep = ops[i].pc,
                                ![i].hostRead = <<r>>,
                                ![i].hostWrote = <<Max2(r, 0)>>]
    /\ host' = 0
    /\ UNCHANGED <<handles, syncFaults, asyncFaults>>
iamax_host_convert(i) ==
    /\ host = i
    /\ ops[i].routine = "iamax"
    /\ TempAccessReady(i)
    /\ HostAccessReady("result_int64", "write")
    /\ \E r \in ScratchValues(i) :
          /\ bufs' = [bufs EXCEPT !["result_int64"][1] = Max2(r - 1, 0)]
          /\ ops' = [ops EXCEPT ![i].pcAtHostStep = ops[i].pc,
                                ![i].hostRead = <<r>>,
                                ![i].hostWrote = <<Max2(r - 1, 0)>>]
    /\ host' = 0
    /\ UNCHANGED <<handles, syncFaults, asyncFaults>>

iamin_host_convert_NoClampMut(i) ==
    /\ host = i
    /\ ops[i].routine = "iamin"
    /\ TempAccessReady(i)
    /\ HostAccessReady("result_int64", "write")
    /\ \E r \in ScratchValues(i) :
          /\ bufs' = [bufs EXCEPT !["result_int64"][1] = r - 1]
          /\ ops' = [ops EXCEPT ![i].pcAtHostStep = ops[i].pc,
                                ![i].hostRead = <<r>>,
                                ![i].hostWrote = <<r - 1>>]
    /\ host' = 0
    /\ UNCHANGED <<handles, syncFaults, asyncFaults>>
iamin_host_convert_TruncMut(i) ==
    /\ host = i
    /\ ops[i].routine = "iamin"
    /\ TempAccessReady(i)
    /\ HostAccessReady("result_int64", "write")
    /\ \E r \in ScratchValues(i) :
          /\ bufs' = [bufs EXCEPT !["result_int64"][1] = Max2((r % 65536) - 1, 0)]
          /\ ops' = [ops EXCEPT ![i].pcAtHostStep = ops[i].pc,
                                ![i].hostRead = <<r>>,
                                ![i].hostWrote = <<Max2((r % 65536) - 1, 0)>>]
    /\ host' = 0
    /\ UNCHANGED <<handles, syncFaults, asyncFaults>>
iamin_host_convert(i) ==
    /\ host = i
    /\ ops[i].routine = "iamin"
    /\ TempAccessReady(i)
    /\ HostAccessReady("result_int64", "write")
    /\ \E r \in ScratchValues(i) :
          /\ bufs' = [bufs EXCEPT !["result_int64"][1] = Max2(r - 1, 0)]
          /\ ops' = [ops EXCEPT ![i].pcAtHostStep = ops[i].pc,
                                ![i].hostRead = <<r>>,
                                ![i].hostWrote = <<Max2(r - 1, 0)>>]
    /\ host' = 0
    /\ UNCHANGED <<handles, syncFaults, asyncFaults>>

\* the end of rotmg's scope: the destructor of y1_buff waits for the task using it
rotmg_return_NoWaitMut(i) ==
    /\ host = i
    /\ ops[i].routine = "rotmg"
    /\ ops' = [ops EXCEPT ![i].pcAtHostStep = ops[i].pc]
    /\ host' = 0
    /\ UNCHANGED <<bufs, handles, syncFaults, asyncFaults>>
rotmg_return(i) ==
    /\ host = i
    /\ ops[i].routine = "rotmg"
    /\ TempAccessReady(i)
    /\ ops' = [ops EXCEPT ![i].pcAtHostStep = ops[i].pc]
    /\ host' = 0
    /\ UNCHANGED <<bufs, handles, syncFaults, asyncFaults>>

-----------------------------------------------------------------------------
(* The caller *)

\* values the caller passes
StridesWide == {-IntMax, -2, -1, 0, 1, 2, IntMax}

\* the calls of behaviours with several invocations: whole vectors, unit stride,
\* real single precision
DomSeq ==
    [maxOps |-> MaxOps, queues |-> {"q1"}, ns |-> {VecLen}, strides |-> {1},
     types |-> {"float"}, sbs |-> {1}]

\* the calls of behaviours with one invocation: every count and stride in single
\* precision, plus every other overload on whole vectors of unit stride
DomOne ==
    [maxOps |-> 1, queues |-> {"q1"}, ns |-> 0..VecLen, strides |-> StridesWide,
     types |-> {"float", "double", "complex<float>", "complex<double>"},
     sbs |-> {1, F32Exact}]

\* the caller may pass (n, incs) to an overload of these types: the vectors it
\* names lie inside x and y, unless the sizes are ones the validation rejects
Admits(D, types, n, incs) ==
    /\ \A k \in DOMAIN types : types[k] \in D.types
    /\ types[1] # "float" => n = VecLen /\ \A k \in DOMAIN incs : incs[k] = 1
    /\ overflow_check(n, incs) \/ \A k \in DOMAIN incs : InBounds(n, incs[k], VecLen)

\* the host thread is outside the library and has calls left to make
CanCall(D) == host = 0 /\ Len(ops) < D.maxOps

Call(D) ==
    \E queue \in D.queues :
    \/ CanCall(D) /\ \E l \in ASUM_LAUNCHER, n \in D.ns, incx \in D.strides :
          Admits(D, l.types, n, <<incx>>) /\ asum(l.func, l.types, queue, n, incx)
    \/ CanCall(D) /\ \E l \in SCAL_LAUNCHER, n \in D.ns, incx \in D.strides :
          Admits(D, l.types, n, <<incx>>) /\ scal(l.func, l.types, queue, n, 2, incx)
    \/ CanCall(D) /\ \E l \in AXPY_LAUNCHER, n \in D.ns, incx \in D.strides, incy \in D.strides :
          Admits(D, l.types, n, <<incx, incy>>)
              /\ axpy(l.func, l.types, queue, n, 2, incx, incy)
    \/ CanCall(D) /\ \E l \in ROTG_LAUNCHER :
          l.types[1] \in D.types /\ rotg(l.func, l.types, queue)
    \/ CanCall(D) /\ \E l \in ROTM_LAUNCHER, n \in D.ns, incx \in D.strides, incy \in D.strides :
          Admits(D, l.types, n, <<incx, incy>>)
              /\ rotm(l.func, l.types, queue, n, incx, incy)
    \/ CanCall(D) /\ \E l \in COPY_LAUNCHER, n \in D.ns, incx \in D.strides, incy \in D.strides :
          Admits(D, l.types, n, <<incx, incy>>)
              /\ copy(l.func, l.types, queue, n, incx, incy)
    \/ CanCall(D) /\ \E l \in DOT_LAUNCHER, n \in D.ns, incx \in D.strides, incy \in D.strides :
          Admits(D, l.types, n, <<incx, incy>>)
              /\ dot(l.ext, l.func, l.types, queue, n, incx, incy)
    \/ CanCall(D) /\ \E l \in ROT_LAUNCHER, n \in D.ns, incx \in D.strides, incy \in D.strides :
          Admits(D, l.types, n, <<incx, incy>>)
              /\ rot(l.func, l.types, queue, n, incx, incy, 0, 1)
    \/ CanCall(D) /\ \E n \in D.ns, incx \in D.strides, incy \in D.strides, sb \in D.sbs :
          Admits(D, <<"float">>, n, <<incx, incy>>)
              /\ sdsdot(queue, n, sb, incx, incy)
    \/ CanCall(D) /\ \E n \in D.ns, incx \in D.strides, incy \in D.strides :
          Admits(D, <<"float">>, n, <<incx, incy>>)
              /\ dot_float_double(queue, n, incx, incy)
    \/ CanCall(D) /\ \E l \in ROTMG_LAUNCHER :
          l.types[1] \in D.types /\ rotmg(l.func, l.types, queue, 0)
    \/ CanCall(D) /\ \E l \in IAMAX_LAUNCHER, n \in D.ns, incx \in D.strides :
          Admits(D, l.types, n, <<incx>>) /\ iamax(l.func, l.types, queue, n, "x", incx)
    \/ CanCall(D) /\ \E l \in SWAP_LAUNCHER, n \in D.ns, incx \in D.strides, incy \in D.strides :
          Admits(D, l.types, n, <<incx, incy>>)
              /\ swap(l.func, l.types, queue, n, incx, incy)
    \/ CanCall(D) /\ \E l \in IAMIN_LAUNCHER, n \in D.ns, incx \in D.strides :
          Admits(D, l.types, n, <<incx>>) /\ iamin(l.func, l.types, queue, n, "x", incx)
    \/ CanCall(D) /\ \E l \in NRM2_LAUNCHER, n \in D.ns, incx \in D.strides :
          Admits(D, l.types, n, <<incx>>) /\ nrm2(l.func, l.types, queue, n, incx)

Task ==
    \/ \E i \in 1..Len(ops) : get_handle(i)
    \/ \E i \in 1..Len(ops) : cublasSetPointerMode(i)
    \/ \E i \in 1..Len(ops) : get_mem(i)
    \/ \E i \in 1..Len(ops) : CUBLAS_ERROR_FUNC(i)

HostTail ==
    \/ \E i \in 1..Len(ops) : sdsdot_host_add(i)
    \/ \E i \in 1..Len(ops) : dot_float_double_host_cast(i)
    \/ \E i \in 1..Len(ops) : iamax_host_convert(i)
    \/ \E i \in 1..Len(ops) : iamin_host_convert(i)
    \/ \E i \in 1..Len(ops) : rotmg_return(i)

InitWith(xs) ==
    /\ ops = <<>>
    /\ bufs \in {InitBufs(x0) : x0 \in xs}
    /\ handles = [c \in Contexts |->
                     [created |-> FALSE, made |-> 0, mode |-> DefaultPointerMode,
                      setter |-> 0]]
    /\ host = 0
    /\ syncFaults = <<>>
    /\ asyncFaults = {}

\* several invocations on one fixed vector
Init == InitWith({[i \in 1..VecLen |-> IF i % 2 = 0 THEN -2 ELSE 1]})

Next == Call(DomSeq) \/ Task \/ HostTail

Spec == Init /\ [][Next]_vars

\* one invocation, on every vector
InitOne == InitWith([1..VecLen -> ElemVals])

NextOne == Call(DomOne) \/ Task \/ HostTail

SpecOne == InitOne /\ [][NextOne]_vars

\* the calls of behaviours about the handle cache: asum and copy on whole vectors,
\* on any queue
DomCtx ==
    [maxOps |-> MaxOps, queues |-> Queues, ns |-> {VecLen}, strides |-> {1},
     types |-> {"float"}, sbs |-> {1}]

CallCtx(D) ==
    \E queue \in D.queues :
    \/ CanCall(D) /\ \E l \in ASUM_LAUNCHER, n \in D.ns, incx \in D.strides :
          Admits(D, l.types, n, <<incx>>) /\ asum(l.func, l.types, queue, n, incx)
    \/ CanCall(D) /\ \E l \in COPY_LAUNCHER, n \in D.ns, incx \in D.strides, incy \in D.strides :
          Admits(D, l.types, n, <<incx, incy>>)
              /\ copy(l.func, l.types, queue, n, incx, incy)

NextCtx == CallCtx(DomCtx) \/ Task

\* several invocations on queues of shared, distinct and unusable contexts
SpecCtx == Init /\ [][NextCtx]_vars

\* counts around the ranges of 16-bit and 32-bit integers
LongCounts == {0, 1, 2, 65536, 65537, IntMax - 1, IntMax}

\* the calls of behaviours with one index search on a long vector
DomIdx ==
    [maxOps |-> 1, queues |-> {"q1"}, ns |-> LongCounts, strides |-> StridesWide,
     types |-> {"float"}, sbs |-> {1}]

\* the long vectors a caller may hold: the single different element is the first,
\* the second, one beyond 16 bits or the last, and is the larger or the smaller
LongVectors ==
    {LongVector(IntMax, at, e[1], e[2]) :
        at \in {1, 2, 65537, IntMax},
        e \in {p \in ElemVals \X ElemVals : p[1] # p[2]}}

CallIdx(D) ==
    \E queue \in D.queues :
    \/ CanCall(D) /\ \E l \in IAMAX_LAUNCHER, n \in D.ns, incx \in D.strides :
          /\ l.types[1] \in D.types
          /\ overflow_check(n, <<incx>>) \/ InBounds(n, incx, bufs["xl"].len)
          /\ iamax(l.func, l.types, queue, n, "xl", incx)
    \/ CanCall(D) /\ \E l \in IAMIN_LAUNCHER, n \in D.ns, incx \in D.strides :
          /\ l.types[1] \in D.types
          /\ overflow_check(n, <<incx>>) \/ InBounds(n, incx, bufs["xl"].len)
          /\ iamin(l.func, l.types, queue, n, "xl", incx)

HostTailIdx ==
    \/ \E i \in 1..Len(ops) : iamax_host_convert(i)
    \/ \E i \in 1..Len(ops) : iamin_host_convert(i)

InitIdx ==
    /\ ops = <<>>
    /\ bufs \in {[InitBufs(<<>>) EXCEPT !["xl"] = v] : v \in LongVectors}
    /\ handles = [c \in Contexts |->
                     [created |-> FALSE, made |-> 0, mode |-> DefaultPointerMode,
                      setter |-> 0]]
    /\ host = 0
    /\ syncFaults = <<>>
    /\ asyncFaults = {}

NextIdx == CallIdx(DomIdx) \/ Task \/ HostTailIdx

\* one index search on a vector as long as the native int allows
SpecIdx == InitIdx /\ [][NextIdx]_vars

-----------------------------------------------------------------------------
(* Vocabulary of the properties *)

Invocations == 1..Len(ops)

\* the step in which invocation i's task issues its native call
NativeCallOf(i) == ops'[i].calls = ops[i].calls + 1

OneStrideRoutines == {"asum", "scal", "iamax", "iamin", "nrm2"}

TwoStrideRoutines ==
    {"axpy", "rotm", "copy", "dot", "dotc", "dotu", "rot", "sdsdot",
     "dot_float_double", "swap"}

\* the strides the caller gave invocation o
StridesOf(o) ==
    IF o.routine \in OneStrideRoutines THEN <<o.incx>>
    ELSE IF o.routine \in TwoStrideRoutines THEN <<o.incx, o.incy>>
    ELSE <<>>

\* n * |stride| is at most the largest native int, for each stride of o
FitsNativeInt(o) ==
    \A k \in DOMAIN StridesOf(o) :
        StridesOf(o)[k] = 0 \/ Abs(o.n) <= IntMax \div Abs(StridesOf(o)[k])

\* routines whose native call writes a scalar result into device memory
DeviceResultRoutines ==
    {"asum", "dot", "dotc", "dotu", "nrm2", "rotg", "rotmg", "sdsdot",
     "dot_float_double", "iamax", "iamin"}

Succeeded(o) == o.pc = "done" /\ o.status = CUBLAS_STATUS_SUCCESS

Failed(o) == o.pc = "done" /\ o.status # CUBLAS_STATUS_SUCCESS

\* the caller's buffers hold what the caller put there
Untouched == bufs \in {InitBufs(x0) : x0 \in [1..VecLen -> ElemVals]}

\* the one-based index the native routine of o finds in the caller's x
NativeIndex(o) ==
    LET x == o.args.ptrs[1]
    IN  CASE o.routine = "iamax" /\ x \in LongBufs -> cublasIamaxLong(o.n, bufs[x], o.incx)
          [] o.routine = "iamax" -> cublasIamax(o.n, bufs[x], o.incx)
          [] x \in LongBufs -> cublasIaminLong(o.n, bufs[x], o.incx)
          [] OTHER -> cublasIamin(o.n, bufs[x], o.incx)

-----------------------------------------------------------------------------
(* Properties *)

\* C1: an invocation whose n * max(|stride|) does not fit the native int ends in
\* an overflow fault thrown to the caller before anything is submitted: it has no
\* task, has resolved no pointer, has issued no native call, and the handle and
\* the caller's buffers are as they were.
C1_OverflowFaultsBeforeSubmit ==
    \A i \in Invocations :
        ~FitsNativeInt(ops[i]) =>
            /\ ops[i].pc = "threw"
            /\ ops[i].submits = 0
            /\ ops[i].calls = 0
            /\ ops[i].resolved = {}
            /\ \E k \in DOMAIN syncFaults : syncFaults[k] = [op |-> i, what |-> "overflow"]
            /\ Len(ops) = 1 =>
                  /\ Untouched
                  /\ \A c \in Contexts : ~handles[c].created
                  /\ asyncFaults = {}

C1_Witness ==
    \E i \in Invocations :
        /\ ~FitsNativeInt(ops[i])
        /\ ops[i].pc = "threw"
        /\ ops[i].routine = "sdsdot"
        /\ ops[i].incx = 1 /\ ops[i].incy = -IntMax

\* C2: an invocation whose n * |stride| fits the native int for each of its strides
\* raises no overflow fault and submits its task.
C2_NoOverflowFaultWhenFits ==
    \A i \in Invocations :
        FitsNativeInt(ops[i]) =>
            /\ ops[i].pc # "threw"
            /\ ops[i].submits = 1
            /\ \A k \in DOMAIN syncFaults : syncFaults[k].op # i

C2_Witness ==
    \E i \in Invocations :
        /\ ops[i].routine = "axpy"
        /\ ops[i].n = 1 /\ ops[i].incx = IntMax /\ ops[i].incy = -IntMax
        /\ ops[i].pc = "done"

\* C3: whenever a routine that writes a scalar result into device memory has
\* resolved its pointers or issued its native call, its own task has set the
\* pointer mode, and the handle was in device pointer mode at the call.
C3_DeviceModeAtScalarResultCall ==
    \A i \in Invocations :
        ops[i].routine \in DeviceResultRoutines =>
            /\ ops[i].pc \in {"mem", "done"} => ops[i].modeSet
            /\ ops[i].calls > 0 => ops[i].modeAtCall = "DEVICE"

C3_Witness ==
    /\ Len(ops) = 2
    /\ ops[1].routine = "scal" /\ ops[1].pc = "done"
    /\ ops[2].routine = "rotg" /\ ops[2].calls = 1
    /\ ops[2].modeAtCall = "DEVICE"

\* invocation j's task is between its pointer-mode change and its native call
InModeUnit(j) == ops[j].pc \in {"mode", "mem"}

\* C4: when tasks on one context run concurrently, the pointer-mode change and
\* the native call of each are one unit: no task issues its native call while the
\* mode in effect on its handle is the one that another task, still between its
\* own mode change and its own native call, has set.
C4_NoForeignPointerModeAtCall ==
    [][\A i \in Invocations :
          NativeCallOf(i) =>
              LET j == handles[CtxOf(ops[i].queue)].setter
              IN  ~(j \notin {0, i} /\ InModeUnit(j))]_vars

\* C5: an invocation submits at most one task, exactly one unless it threw; a task
\* issues at most one native call, exactly one by the time it is over, also when
\* that call failed.
C5_OneTaskOneNativeCall ==
    \A i \in Invocations :
        /\ ops[i].submits = IF ops[i].pc = "threw" THEN 0 ELSE 1
        /\ ops[i].calls <= ops[i].submits
        /\ ops[i].pc = "done" => ops[i].calls = 1
        /\ ops[i].status # -1 => ops[i].calls = 1 /\ ops[i].pc = "done"

C5_Witness ==
    /\ Len(ops) = 2
    /\ ops[1].routine = "copy" /\ Failed(ops[1]) /\ ops[1].calls = 1
    /\ ops[2].routine = "swap" /\ Succeeded(ops[2]) /\ ops[2].calls = 1

\* C6 as stated: once a native routine has returned a status other than success,
\* the queue's asynchronous channel holds a fault of that invocation carrying the
\* native routine's name and the status.
C6_NativeFailureIsSurfaced ==
    \A i \in Invocations :
        ops[i].status \notin {-1, CUBLAS_STATUS_SUCCESS} =>
            [op |-> i, name |-> ops[i].func, code |-> ops[i].status] \in asyncFaults

\* C7: iamax and iamin never hand the caller's result buffer to the task; the host
\* reads the scratch buffer only once the task is over, and writes max(r - 1, 0)
\* for the value r it read, which after a successful native call is the one-based
\* index the native routine found.
C7_IndexConvertedOnHost ==
    \A i \in Invocations :
        ops[i].routine \in {"iamax", "iamin"} =>
            /\ "result_int64" \notin {a[1] : a \in ops[i].acc}
            /\ \A k \in DOMAIN ops[i].args.ptrs : ops[i].args.ptrs[k] # "result_int64"
            /\ ops[i].pcAtHostStep = "none" => bufs["result_int64"] = <<7, 9>>
            /\ ops[i].pcAtHostStep # "none" =>
                  /\ ops[i].pcAtHostStep = "done"
                  /\ bufs["result_int64"][1] = Max2(ops[i].hostRead[1] - 1, 0)
                  /\ Succeeded(ops[i]) =>
                        /\ ops[i].hostRead[1] = NativeIndex(ops[i])
                        /\ bufs["result_int64"][1] = Max2(NativeIndex(ops[i]) - 1, 0)

C7_Witness ==
    \E i \in Invocations :
        /\ ops[i].routine = "iamax"
        /\ Succeeded(ops[i])
        /\ ops[i].pcAtHostStep = "done"
        /\ ops[i].n = 3 /\ ops[i].incx = 1
        /\ bufs["x"][1] = 1 /\ bufs["x"][2] = -2 /\ bufs["x"][3] = 1
        /\ ops[i].hostRead = <<2>>
        /\ bufs["result_int64"][1] = 1

\* C8: after iamax or iamin with a stride that is negative or zero, whose native
\* call succeeded, element 0 of the caller's result buffer is 0.
C8_NonPositiveStrideIndexIsZero ==
    \A i \in Invocations :
        /\ ops[i].routine \in {"iamax", "iamin"}
        /\ ops[i].incx <= 0
        /\ Succeeded(ops[i])
        /\ ops[i].pcAtHostStep # "none"
        => bufs["result_int64"][1] = 0

C8_Witness ==
    \E i \in Invocations :
        /\ ops[i].routine = "iamin"
        /\ ops[i].incx = -1 /\ ops[i].n = 3
        /\ Succeeded(ops[i])
        /\ ops[i].pcAtHostStep = "done"
        /\ bufs["x"][1] = -2 /\ bufs["x"][2] = -2 /\ bufs["x"][3] = 1
        /\ bufs["result_int64"][1] = 0

\* C9: sdsdot adds sb on the host only once its task is over, and after a
\* successful native call element 0 of the result buffer is the single precision
\* sum of the native dot product of x and y and sb.
C9_SdsdotAddsSbAfterNativeDot ==
    \A i \in Invocations :
        ops[i].routine = "sdsdot" /\ ops[i].pcAtHostStep # "none" =>
            /\ ops[i].pcAtHostStep = "done"
            /\ Succeeded(ops[i]) =>
                  /\ ops[i].hostRead[1] =
                        F32(cublasDot(ops[i].n, bufs["x"], ops[i].incx,
                                      bufs["y"], ops[i].incy))
                  /\ bufs["result"][1] =
                        F32(F32(cublasDot(ops[i].n, bufs["x"], ops[i].incx,
                                          bufs["y"], ops[i].incy))
                            + ops[i].scalars[1])

C9_Witness ==
    \E i \in Invocations :
        /\ ops[i].routine = "sdsdot"
        /\ Succeeded(ops[i])
        /\ ops[i].pcAtHostStep = "done"
        /\ ops[i].n = 3 /\ ops[i].incx = 1 /\ ops[i].incy = -1
        /\ ops[i].scalars = <<1>>
        /\ bufs["x"] = <<1, -2, 1>>
        /\ bufs["result"][1] = 1

\* C10: the float-to-double dot never hands the caller's double buffer to its
\* task: the native call leaves every caller buffer as it was and writes the
\* scratch buffer; the host reads the scratch buffer only once the task is over
\* and stores the value it read, which after a successful native call is the
\* single precision dot product, in element 0 of the double buffer.
C10_FloatDotThroughScratch ==
    \A i \in Invocations :
        ops[i].routine = "dot_float_double" =>
            /\ "result_double" \notin {a[1] : a \in ops[i].acc}
            /\ \A k \in DOMAIN ops[i].args.ptrs : ops[i].args.ptrs[k] # "result_double"
            /\ ops[i].pcAtHostStep = "none" => Untouched
            /\ Succeeded(ops[i]) =>
                  ops[i].tmp = <<F32(cublasDot(ops[i].n, bufs["x"], ops[i].incx,
                                               bufs["y"], ops[i].incy))>>
            /\ ops[i].pcAtHostStep # "none" =>
                  /\ ops[i].pcAtHostStep = "done"
                  /\ bufs["result_double"][1] = ops[i].hostRead[1]
                  /\ Succeeded(ops[i]) => bufs["result_double"][1] = ops[i].tmp[1]

C10_Witness ==
    \E i \in Invocations :
        /\ ops[i].routine = "dot_float_double"
        /\ Succeeded(ops[i])
        /\ ops[i].pcAtHostStep = "done"
        /\ ops[i].n = 2 /\ ops[i].incx = 2 /\ ops[i].incy = 1
        /\ bufs["x"] = <<-2, 1, -2>>
        /\ ops[i].tmp = <<-6>>
        /\ bufs["result_double"][1] = -6

\* the caller's y before the call
InitY == InitBufs(<<>>)["y"]

\* C11: asum and nrm2 hand |incx| to the native routine: after a successful call,
\* with a negative stride s in particular, the result is what the native routine
\* computes for x with stride |s|.
C11_AbsStrideForAsumNrm2 ==
    \A i \in Invocations :
        ops[i].routine \in {"asum", "nrm2"} /\ ops[i].pc # "threw" =>
            /\ ops[i].args.incx = Abs(ops[i].incx)
            /\ Succeeded(ops[i]) =>
                  bufs["result"][1] =
                      Store(ElemType(ops[i].types),
                            IF ops[i].routine = "asum"
                            THEN cublasAsum(ops[i].n, bufs["x"], Abs(ops[i].incx))
                            ELSE cublasNrm2(ops[i].n, bufs["x"], Abs(ops[i].incx)))

C11_Witness ==
    \E i \in Invocations :
        /\ ops[i].routine = "asum"
        /\ ops[i].n = 2 /\ ops[i].incx = -2
        /\ Succeeded(ops[i])
        /\ bufs["x"] = <<-2, 1, 1>>
        /\ bufs["result"][1] = 3

\* C12: dot, dotc, dotu, axpy, copy, swap and rot hand the caller's incx and incy
\* to the native routine as they are, sign included: after a successful call the
\* buffers hold what the native routine computes with the caller's strides (for
\* swap with nonzero strides: swapping back with the same strides restores y).
C12_StridesPassedUnmodified ==
    \A i \in Invocations :
        /\ ops[i].routine \in {"dot", "dotc", "dotu", "axpy", "copy", "swap", "rot"}
        /\ ops[i].pc # "threw"
        => /\ ops[i].args.incx = ops[i].incx
           /\ ops[i].args.incy = ops[i].incy
           /\ Succeeded(ops[i]) =>
                 CASE ops[i].routine = "axpy" ->
                        bufs["y"] = cublasAxpy(ops[i].n, ops[i].scalars[1], bufs["x"],
                                               ops[i].incx, InitY, ops[i].incy)
                   [] ops[i].routine = "copy" ->
                        bufs["y"] = cublasCopy(ops[i].n, bufs["x"], ops[i].incx,
                                               InitY, ops[i].incy)
                   [] ops[i].routine = "swap" ->
                        \/ ops[i].incx = 0
                        \/ ops[i].incy = 0
                        \/ cublasSwap(ops[i].n, bufs["x"], ops[i].incx,
                                      bufs["y"], ops[i].incy)[2] = InitY
                   [] ops[i].routine = "rot" -> TRUE
                   [] OTHER ->
                        bufs["result"][1] =
                            Store(ElemType(ops[i].types),
                                  cublasDot(ops[i].n, bufs["x"], ops[i].incx,
                                            bufs["y"], ops[i].incy))

C12_Witness ==
    \E i \in Invocations :
        /\ ops[i].routine = "axpy"
        /\ ops[i].n = 3 /\ ops[i].incx = -1 /\ ops[i].incy = 1
        /\ Succeeded(ops[i])
        /\ bufs["x"] = <<1, 1, -2>>
        /\ bufs["y"] = <<-3, 4, 5>>

\* invocation i holds a handle: its task has acquired one
HoldsHandle(i) == ops[i].pc \in {"handle", "mode", "mem", "done"}

\* the task of invocation i is running with a handle in its hands
InFlight(i) == ops[i].pc \in {"handle", "mode", "mem"}

\* C13: at any time at most one native handle has been created per native context,
\* and every acquisition for a queue of that context, on the same queue or on another
\* queue sharing the context, has returned that one cached handle.
C13_OneHandlePerContext ==
    /\ \A c \in Contexts :
          /\ handles[c].made <= 1
          /\ handles[c].created <=> handles[c].made = 1
    /\ \A i \in Invocations :
          HoldsHandle(i) =>
              /\ handles[CtxOf(ops[i].queue)].created
              /\ ops[i].handle = handles[CtxOf(ops[i].queue)].made
    /\ \A i \in Invocations, j \in Invocations :
          HoldsHandle(i) /\ HoldsHandle(j) /\ CtxOf(ops[i].queue) = CtxOf(ops[j].queue)
              => ops[i].handle = ops[j].handle

C13_Witness ==
    /\ Len(ops) = 2
    /\ ops[1].queue = "q1" /\ ops[1].pc = "done"
    /\ ops[2].queue = "q2" /\ ops[2].pc = "handle"
    /\ ops[1].routine = "copy" /\ ops[2].routine = "copy"
    /\ ops[1].handle = 1 /\ ops[2].handle = 1
    /\ handles["ctx1"].made = 1
    /\ handles["ctx2"].made = 0

\* C14: while the tasks of two invocations on one context are running at the same
\* time, each with a handle in its hands, they hold the same handle and only one
\* handle has been created for the context.
C14_ConcurrentAcquirersShareHandle ==
    \A i \in Invocations, j \in Invocations :
        /\ i # j
        /\ InFlight(i) /\ InFlight(j)
        /\ CtxOf(ops[i].queue) = CtxOf(ops[j].queue)
        => /\ ops[i].handle = ops[j].handle
           /\ handles[CtxOf(ops[i].queue)].made = 1

C14_Witness ==
    /\ Len(ops) = 2
    /\ ops[1].routine = "copy" /\ ops[1].queue = "q1" /\ ops[1].pc = "handle"
    /\ ops[2].routine = "asum" /\ ops[2].queue = "q2" /\ ops[2].pc = "handle"
    /\ ops[1].handle = 1 /\ ops[2].handle = 1
    /\ handles["ctx1"].made = 1

\* C19: an invocation on a queue whose device has no native backend, or whose
\* context cannot be bound, goes no further than the handle acquisition, issues no
\* native call, and once the acquisition has failed the caller of the entry point
\* holds the fault, thrown to it synchronously.
C19_UnusableBackendFaultsSynchronously ==
    \A i \in Invocations :
        ~Usable(ops[i].queue) =>
            /\ ops[i].pc \in {"submitted", "failed"}
            /\ ops[i].calls = 0
            /\ ops[i].pc = "failed" =>
                  \E k \in DOMAIN syncFaults : syncFaults[k].op = i

\* the entry points that read back on the host or, for rotmg, destroy a local
\* buffer the task uses
HostBlocking == {"sdsdot", "dot_float_double", "iamax", "iamin", "rotmg"}

\* C15 as stated: every entry point but sdsdot and the float-to-double dot has
\* returned to its caller as soon as its command group is submitted, whatever the
\* state of its task; sdsdot and the float-to-double dot return only once their
\* task is over.
C15_OnlyTwoShimsBlock ==
    \A i \in Invocations :
        /\ ops[i].routine \notin {"sdsdot", "dot_float_double"} => host # i
        /\ ops[i].routine \in {"sdsdot", "dot_float_double"} /\ host # i
              => ops[i].pc \in Finished

\* C15 as amended: every entry point but sdsdot, the float-to-double dot, iamax,
\* iamin and rotmg has returned to its caller as soon as its command group is
\* submitted, whatever the state of its task; those five return only once their
\* task is over.
C15_FiveEntryPointsBlock ==
    \A i \in Invocations :
        /\ ops[i].routine \notin HostBlocking => host # i
        /\ ops[i].routine \in HostBlocking /\ host # i => ops[i].pc \in Finished
        /\ ops[i].routine \in HostBlocking /\ ops[i].pc \notin Finished => host = i

C15_Witness ==
    /\ Len(ops) = 2
    /\ ops[1].routine = "copy" /\ ops[1].pc = "submitted"
    /\ ops[2].routine = "iamax" /\ ops[2].pc = "mem"
    /\ host = 2

\* the caller buffers whose addresses the native call of o is given
NativeOperands(o) == {o.args.ptrs[k] : k \in DOMAIN o.args.ptrs} \cap CallerBufs

\* the caller buffers the native call of o writes
NativeWritten(o) == DOMAIN NativeWrites(o, o.args.hostptrs) \cap CallerBufs

\* the native calls of o1 and o2 work on a common buffer that one of them writes
SharesWrittenBuffer(o1, o2) ==
    \/ NativeWritten(o1) \cap NativeOperands(o2) # {}
    \/ NativeWritten(o2) \cap NativeOperands(o1) # {}

\* C16: of two invocations issued on the same queue whose native calls work on a
\* common buffer that at least one of them writes, the later one issues its native
\* call only when the task of the earlier one is over.
C16_DependentCallsInIssueOrder ==
    \A i \in Invocations, j \in Invocations :
        /\ i < j
        /\ ops[i].queue = ops[j].queue
        /\ ops[j].calls > 0
        /\ ~(ops[i].calls = 1 /\ ops[i].pc = "done")
        => ~SharesWrittenBuffer(ops[i], ops[j])

C16_Witness ==
    /\ Len(ops) = 2
    /\ ops[1].routine = "axpy" /\ Succeeded(ops[1]) /\ ops[1].modeAtCall = "HOST"
    /\ ops[2].routine = "swap" /\ Succeeded(ops[2])
    /\ bufs["x"] = <<3, -2, 5>>
    /\ bufs["y"] = <<1, -2, 1>>

\* two invocations on disjoint buffers, the later one done before the earlier one
\* has issued its native call
C16_UnorderedReachable ==
    /\ Len(ops) = 2
    /\ ~SharesWrittenBuffer(ops[1], ops[2])
    /\ ops[1].calls = 0
    /\ ops[2].pc = "done"

\* C17: the native pointers of an invocation exist only inside its task, from their
\* resolution to the end of the task; they are resolved from the accessors of the
\* invocation's own command group, and the pointers its native call is given are
\* the ones this same task resolved.
C17_PointersLiveInsideOneTask ==
    \A i \in Invocations :
        /\ ops[i].resolved # {} => ops[i].pc = "mem"
        /\ ops[i].resolved \subseteq {a[1] : a \in ops[i].acc}
        /\ ops[i].calls > 0 =>
              /\ ops[i].ptrsAtCall = {a[1] : a \in ops[i].acc}
              /\ \A k \in DOMAIN ops[i].args.ptrs : ops[i].args.ptrs[k] \in ops[i].ptrsAtCall

C17_Witness ==
    /\ Len(ops) = 2
    /\ ops[1].routine = "rotm" /\ ops[1].pc = "done"
    /\ ops[1].resolved = {} /\ ops[1].ptrsAtCall = {"x", "y", "param"}
    /\ ops[2].routine = "rotmg" /\ ops[2].pc = "mem"
    /\ ops[2].resolved = {"d1", "d2", "x1", "y1_buff", "param"}

\* every buffer the native call of o writes, scratch buffers included
AllNativeWritten(o) == DOMAIN NativeWrites(o, o.args.hostptrs)

\* C18: every buffer a native routine writes is acquired by its command group in
\* write or read_write mode, and when the native call has succeeded each of these
\* buffers holds, for a reader on the host, the value the native call computed from
\* the buffers as they were before.
C18_WrittenBuffersAreAcquiredForWriting ==
    [][ \A i \in 1..Len(ops) :
           /\ \A b \in AllNativeWritten(ops[i]) :
                 \E a \in ops[i].acc : a[1] = b /\ a[2] \in {"write", "read_write"}
           /\ ops[i].pc = "mem" /\ Succeeded(ops'[i]) =>
                 \A b \in AllNativeWritten(ops[i]) :
                     (IF b \in TempBufs THEN ops'[i].tmp ELSE bufs'[b])
                         = NativeWrites(ops[i], ops[i].args.hostptrs)[b] ]_vars

C18_Witness ==
    \E i \in Invocations :
        /\ ops[i].routine = "rotg"
        /\ Succeeded(ops[i])
        /\ bufs["a"] = <<1>> /\ bufs["b"] = <<0>>
        /\ bufs["c"] = <<1>> /\ bufs["s"] = <<0>>

\* the native library's naming: the letter of an element type
Letter(t) ==
    CASE t = "float" -> "S"
      [] t = "double" -> "D"
      [] t = "complex<float>" -> "C"
      [] OTHER -> "Z"

\* the letter of the second type of a mixed routine
LowerLetter(t) ==
    CASE t = "float" -> "s"
      [] t = "double" -> "d"
      [] t = "complex<float>" -> "c"
      [] OTHER -> "z"

IsComplex(t) == t \in {"complex<float>", "complex<double>"}

\* the native routine of an entry point with the given parameter types, by the
\* native library's naming rules
ExpectedNative(routine, types) ==
    CASE routine \in {"asum", "nrm2"} ->
           "cublas" \o (IF IsComplex(types[1])
                        THEN Letter(types[2]) \o LowerLetter(types[1])
                        ELSE Letter(types[1])) \o routine
      [] routine = "scal" ->
           "cublas" \o (IF types[1] = types[2]
                        THEN Letter(types[2])
                        ELSE Letter(types[2]) \o LowerLetter(types[1])) \o "scal"
      [] routine = "rot" ->
           "cublas" \o (IF IsComplex(types[1])
                        THEN Letter(types[1]) \o LowerLetter(types[2])
                        ELSE Letter(types[1])) \o "rot"
      [] routine = "iamax" -> "cublasI" \o LowerLetter(types[1]) \o "amax"
      [] routine = "iamin" -> "cublasI" \o LowerLetter(types[1]) \o "amin"
      [] routine \in {"sdsdot", "dot_float_double"} -> "cublasSdot"
      [] OTHER -> "cublas" \o Letter(types[1]) \o routine

\* C20: the native routine an invocation is bound to, and calls, is the one of the
\* same operation for the element types of the entry point: S, D, C or Z by type,
\* the conjugated dot for dotc and the unconjugated one for dotu, the mixed
\* routines for mixed signatures; dotc and dotu exist for complex types only.
C20_NativeRoutineMatchesTypes ==
    \A i \in Invocations :
        /\ ops[i].func = ExpectedNative(ops[i].routine, ops[i].types)
        /\ ops[i].routine \in {"dotc", "dotu"} => IsComplex(ops[i].types[1])
        /\ ops[i].routine = "dot" => ~IsComplex(ops[i].types[1])

C20_Witness ==
    \E i \in Invocations :
        /\ ops[i].routine = "dotc"
        /\ ops[i].types = <<"complex<double>">>
        /\ ops[i].func = "cublasZdotc"
        /\ ops[i].calls = 1

\* C21 as stated: for every element type, after a successful copy(n, x, incx, y, incy)
\* the n elements of y under stride incy equal the n elements of x under stride
\* incx, and the task's native call leaves x as it was.
C21_CopyEqualsSource ==
    /\ [](\A i \in Invocations :
             ops[i].routine = "copy" /\ Succeeded(ops[i]) =>
                 Gather(bufs["y"], ops[i].n, ops[i].incy)
                     = Gather(bufs["x"], ops[i].n, ops[i].incx))
    /\ [][\A i \in Invocations :
             ops[i].routine = "copy" /\ NativeCallOf(i) => bufs'["x"] = bufs["x"]]_vars

\* C21, amended: the same, for the copies whose destination elements are distinct
\* (incy # 0, or n < 2); with incy = 0 the n elements of y are one element, which
\* cannot equal n different elements of x.
C21_CopyEqualsSourceDistinctDest ==
    /\ [](\A i \in Invocations :
             /\ ops[i].routine = "copy"
             /\ Succeeded(ops[i])
             /\ (ops[i].incy # 0 \/ ops[i].n < 2)
             => Gather(bufs["y"], ops[i].n, ops[i].incy)
                    = Gather(bufs["x"], ops[i].n, ops[i].incx))
    /\ [][\A i \in Invocations :
             ops[i].routine = "copy" /\ NativeCallOf(i) => bufs'["x"] = bufs["x"]]_vars

\* a reversing copy of a vector that is not a palindrome has succeeded
C21_Witness ==
    \E i \in Invocations :
        /\ ops[i].routine = "copy"
        /\ ops[i].n = VecLen /\ ops[i].incx = -1 /\ ops[i].incy = 1
        /\ Succeeded(ops[i])
        /\ bufs["x"] = <<1, 1, -2>>
        /\ bufs["y"] = <<-2, 1, 1>>

\* C23: every native call that takes a scalar by host address (a in scal, alpha in
\* axpy, c and s in rot) is issued while the handle is in host pointer mode,
\* whatever ran on the handle before.
C23_HostModeAtHostScalarCall ==
    \A i \in Invocations :
        TakesHostScalars(ops[i]) /\ ops[i].calls > 0 => ops[i].modeAtCall = "HOST"

\* the position of invocation i before a step: "new" when the step is its call
PcBefore(i) == IF i \in DOMAIN ops THEN ops[i].pc ELSE "new"

\* the step from position p to position q is the next one of invocation o (in its
\* state after the step) in the order of the entry points
InOrder(o, p, q) ==
    CASE p = "new" ->
           IF overflow_check(o.n, StridesOf(o))
           THEN q = "threw" /\ o.submits = 0
           ELSE q = "submitted" /\ o.submits = 1
      [] p = "submitted" -> (q = "handle" /\ o.handle # 0) \/ q = "failed"
      [] p = "handle" ->
           IF o.setsMode THEN q = "mode" /\ o.modeSet
           ELSE q = "mem" /\ o.resolved = {a[1] : a \in o.acc}
      [] p = "mode" -> q = "mem" /\ o.resolved = {a[1] : a \in o.acc}
      [] p = "mem" -> q = "done" /\ o.calls = 1 /\ o.status \in StatusCodes
      [] OTHER -> FALSE

\* C24: the steps of every invocation come in the order validation (for the entry
\* points that have one), submission, handle acquisition, pointer-mode setting
\* (for the routines that have one), resolution of every operand, native call with
\* its status check, and a fault for a status other than success; no native call
\* is issued without the handle and every operand pointer.
C24_StepsInOrder ==
    /\ [](\A i \in Invocations :
             /\ ops[i].calls > 0 =>
                   /\ ops[i].handle # 0
                   /\ ops[i].setsMode => ops[i].modeSet
                   /\ \A k \in DOMAIN ops[i].args.ptrs :
                         ops[i].args.ptrs[k] \in ops[i].ptrsAtCall
             /\ ops[i].pc \in {"submitted", "handle", "mode", "mem"} => ops[i].calls = 0
             /\ Failed(ops[i]) => \E f \in asyncFaults : f.op = i /\ f.code = ops[i].status)
    /\ [][\A i \in DOMAIN ops' :
             ops'[i].pc # PcBefore(i) => InOrder(ops'[i], PcBefore(i), ops'[i].pc)]_vars

\* a routine with every step has gone through all of them
C24_Witness ==
    \E i \in Invocations :
        /\ ops[i].routine = "rotm"
        /\ ops[i].n = 2 /\ ops[i].incx = -1 /\ ops[i].incy = 2
        /\ ops[i].pc = "done" /\ ops[i].handle # 0 /\ ops[i].modeSet
        /\ ops[i].ptrsAtCall = {"x", "y", "param"}
        /\ ops[i].calls = 1

\* the entry points with a host-side step after the task, and the caller's result
\* buffer that step writes
HostStepRoutines == {"sdsdot", "dot_float_double", "iamax", "iamin"}

ResultBufOf(o) ==
    CASE o.routine = "sdsdot" -> "result"
      [] o.routine = "dot_float_double" -> "result_double"
      [] OTHER -> "result_int64"

\* C25: when the native call of sdsdot, the float-to-double dot, iamax or iamin has
\* failed, the host-side step is not performed and the caller's result buffer
\* holds what it held before the call.
C25_NoHostStepAfterFailedCall ==
    \A i \in Invocations :
        ops[i].routine \in HostStepRoutines /\ Failed(ops[i]) =>
            /\ ops[i].pcAtHostStep = "none"
            /\ bufs[ResultBufOf(ops[i])] = InitBufs(<<>>)[ResultBufOf(ops[i])]

\* C26: scal hands |incx| to the native routine: its native call has the arguments
\* of a scal with stride |incx|, and when it succeeds in host pointer mode it turns
\* x into what the native routine makes of x with stride |incx|, for a negative
\* stride in particular.
C26_ScalUsesAbsStride ==
    /\ [](\A i \in Invocations :
             ops[i].routine = "scal" /\ ops[i].pc # "threw" =>
                 /\ ops[i].args.incx = Abs(ops[i].incx)
                 /\ ops[i].args.n = ops[i].n
                 /\ ops[i].args.hostptrs = ops[i].scalars)
    /\ [][\A i \in Invocations :
             /\ ops[i].routine = "scal"
             /\ NativeCallOf(i)
             /\ Succeeded(ops'[i])
             /\ ops'[i].modeAtCall = "HOST"
             => bufs'["x"] = cublasScal(ops[i].n, ops[i].scalars[1], bufs["x"],
                                        Abs(ops[i].incx))]_vars

\* a scal with stride -2 has doubled the first and the third element
C26_Witness ==
    \E i \in Invocations :
        /\ ops[i].routine = "scal"
        /\ ops[i].n = 2 /\ ops[i].incx = -2
        /\ Succeeded(ops[i])
        /\ bufs["x"] = <<2, 1, -4>>

\* C27: an iamax or iamin that passed the validation has a count whose product
\* with |incx| fits the native int, so that the one-based index of a successful
\* native call, which is at most n, fits the int scratch buffer; the host reads
\* that very index, the 64-bit result is the index minus one (0 for index 0), from
\* which the index can be told again, and it lies in 0 .. max(n - 1, 0).
C27_IndexFitsNarrowInt ==
    \A i \in Invocations :
        ops[i].routine \in {"iamax", "iamin"} /\ ops[i].pc # "threw" =>
            /\ ops[i].incx # 0 => ops[i].n <= IntMax \div Abs(ops[i].incx)
            /\ Succeeded(ops[i]) /\ ops[i].pcAtHostStep # "none" =>
                  /\ ops[i].hostRead[1] = NativeIndex(ops[i])
                  /\ ops[i].hostRead[1] \in 0..Max2(ops[i].n, 0)
                  /\ ops[i].hostRead[1] >= 1 =>
                        bufs["result_int64"][1] + 1 = ops[i].hostRead[1]
                  /\ bufs["result_int64"][1] \in 0..Max2(ops[i].n - 1, 0)

\* iamax over as many elements as the native int can count has found the largest
\* element at the last of them
C27_Witness ==
    \E i \in Invocations :
        /\ ops[i].routine = "iamax"
        /\ ops[i].n = IntMax /\ ops[i].incx = 1
        /\ bufs["xl"] = LongVector(IntMax, IntMax, -2, 1)
        /\ Succeeded(ops[i])
        /\ ops[i].pcAtHostStep = "done"
        /\ ops[i].hostRead = <<IntMax>>
        /\ bufs["result_int64"][1] = IntMax - 1

\* invocation o wraps a local of its entry point in a buffer
UsesLocalBuffer(o) == \E a \in o.acc : a[1] \in TempBufs

\* C28: a task never works on memory of an entry point that has returned.  The
\* scalars a, alpha, c and s reach the native call as the task's own copies,
\* holding the values the caller passed, and a successful call in host pointer
\* mode has the effect computed from these values; an entry point that wraps a
\* local in a buffer (y1 in rotmg, the scratch of iamax, iamin and the
\* float-to-double dot) stays in its frame until its task is over, and rotmg's
\* buffer holds y1 until then.
C28_TasksOutliveNoFrame ==
    /\ [](\A i \in Invocations :
             /\ TakesHostScalars(ops[i]) => ops[i].args.hostptrs = ops[i].scalars
             /\ UsesLocalBuffer(ops[i]) =>
                   /\ ops[i].pc \notin Finished => host = i
                   /\ ops[i].pcAtHostStep # "none" => ops[i].pcAtHostStep \in Finished
             /\ ops[i].routine = "rotmg" /\ ops[i].pc \notin Finished =>
                   ops[i].tmp = ops[i].scalars /\ ops[i].tmpInit)
    /\ [][\A i \in Invocations :
             /\ TakesHostScalars(ops[i])
             /\ NativeCallOf(i)
             /\ Succeeded(ops'[i])
             /\ ops'[i].modeAtCall = "HOST"
             => \A b \in DOMAIN NativeWrites(ops[i], ops[i].scalars) :
                    bufs'[b] = NativeWrites(ops[i], ops[i].scalars)[b]]_vars

\* rotmg has returned, after its task used the buffer around y1
C28_Witness ==
    \E i \in Invocations :
        /\ ops[i].routine = "rotmg"
        /\ ops[i].ptrsAtCall = {"d1", "d2", "x1", "y1_buff", "param"}
        /\ Succeeded(ops[i])
        /\ ops[i].pcAtHostStep = "done"
        /\ host = 0
        /\ bufs["param"][1] = -2

\* the operands of routine o that are inputs only; iamax and iamin search the
\* vector the caller passed them
InputOnly(o) ==
    CASE o.routine \in {"asum", "nrm2", "axpy", "copy"} -> {"x"}
      [] o.routine \in {"iamax", "iamin"} -> {o.args.ptrs[1]}
      [] o.routine \in {"dot", "dotc", "dotu", "sdsdot", "dot_float_double"} -> {"x", "y"}
      [] o.routine = "rotm" -> {"param"}
      [] OTHER -> {}

\* C29: no step of an invocation, from its call to its host-side tail, changes an
\* operand that is an input only: x in asum, nrm2, iamax, iamin, axpy and copy, x
\* and y in the dot family, param in rotm; they are acquired for reading.
C29_InputOperandsUnchanged ==
    [][\A i \in DOMAIN ops' :
          i \notin DOMAIN ops \/ ops'[i] # ops[i] =>
              \A b \in InputOnly(ops'[i]) :
                  /\ bufs'[b] = bufs[b]
                  /\ \A a \in ops'[i].acc : a[1] = b => a[2] = "read"]_vars

\* axpy has changed y and left x
C29_Witness ==
    \E i \in Invocations :
        /\ ops[i].routine = "axpy"
        /\ ops[i].n = VecLen /\ ops[i].incx = 1 /\ ops[i].incy = -1
        /\ Succeeded(ops[i])
        /\ bufs["x"] = <<1, -2, 1>>
        /\ bufs["y"] = <<3, -2, 5>>

\* C30: once the host-side step of sdsdot, the float-to-double dot, iamax or iamin
\* has run, every element of the caller's result buffer other than element 0 holds
\* what it held before the call.
C30_HostStepChangesOnlyElementZero ==
    \A i \in Invocations :
        ops[i].routine \in HostStepRoutines /\ ops[i].pcAtHostStep # "none" =>
            \A k \in 2..Len(bufs[ResultBufOf(ops[i])]) :
                bufs[ResultBufOf(ops[i])][k] = InitBufs(<<>>)[ResultBufOf(ops[i])][k]

\* the same for the three host-side steps that take a write or read_write accessor
C30_WriteAccessorsKeepTheRest ==
    \A i \in Invocations :
        /\ ops[i].routine \in {"sdsdot", "iamax", "iamin"}
        /\ ops[i].pcAtHostStep # "none"
        => \A k \in 2..Len(bufs[ResultBufOf(ops[i])]) :
               bufs[ResultBufOf(ops[i])][k] = InitBufs(<<>>)[ResultBufOf(ops[i])][k]

====
